---- MODULE Spec2Model ----
(***************************************************************************)
(* A model of rrc-web: the RRC protocol client (rrc_web/client.py) and the *)
(* backend coordinator (rrc_web/backend.py).                               *)
(*                                                                         *)
(* The module holds several specifications over one set of variables.      *)
(*   SpecRes      the client's resource-transfer bookkeeping, run by       *)
(*                concurrent transport workers;                            *)
(*   SpecClose    close() and the link-closed callback, concurrent with    *)
(*                the transport workers;                                   *)
(*   SpecBackend  the backend's event handlers on the event loop;          *)
(*   SpecConn     connect(), the handshake and the UI commands;            *)
(*   SpecHappy    the handshake with a hub that answers in time, under     *)
(*                weak fairness.                                           *)
(* A specification leaves the variables of the other parts unchanged.      *)
(***************************************************************************)
EXTENDS Integers, Sequences, FiniteSets, TLC

(***************************************************************************)
(* Program constants.                                                      *)
(***************************************************************************)
max_resource_bytes == 262144
resource_expectation_ttl_s == 30
max_pending_resource_expectations == 8
max_active_resources == 16

T_JOINED == 11
T_PARTED == 13
T_RESOURCE_ENVELOPE == 50

T_JOIN == 10
T_PART == 12
T_MSG == 20
T_NOTICE == 21
T_PING == 30
hello_max_attempts == 3

RRC_VERSION == 1
T_HELLO == 1
T_WELCOME == 2
T_PONG == 31
T_ERROR == 40

\* lengths that validate_envelope asks for
MidLen == 8
SrcLen == 16
MaxEnvRoomLen == 64
MaxEnvNickLen == 32
\* the longest text and nickname a UI command may carry, and the default
\* max_length of sanitize_text_input
MaxTextLen == 10000
MaxNickLen == 32
max_length == 1024

\* connect(): the default timeout_s, the longest path wait and the pause
\* after an older link was torn down, in seconds
default_timeout_s == 20
path_wait_s == 5
cleanup_pause_s == 1

room_op_rate_limit == 10
room_op_rate_window == 5
\* the longest room name a UI command may carry
MaxRoomLen == 64

MAX_MESSAGES_PER_ROOM == 1000
MAX_ROOMS == 100
HubRoom == "[Hub]"

(***************************************************************************)
(* Strings.  A string is written by what the code looks at: a name for its *)
(* characters once stripped and lowercased, whether it has upper-case      *)
(* letters, the number of whitespace characters around it, its stripped    *)
(* length, whether it holds a control character that sanitize_text_input   *)
(* forbids, and its first word when it starts with "/".  NoStr is None.    *)
(***************************************************************************)
Str(base, caps, pad, len) ==
    [base |-> base, caps |-> caps, pad |-> pad, len |-> len, none |-> FALSE,
     ctl |-> FALSE, cmd |-> ""]

NoStr == [Str("", FALSE, 0, 0) EXCEPT !.none = TRUE]

(***************************************************************************)
(* Bounds of the model.                                                    *)
(***************************************************************************)
\* transport worker threads that run the client's callbacks
Workers == {"w1", "w2"}
\* transport events (packets, advertisements, conclusions) in one run
MaxEvents == 2
\* clock advances in one run, each by TickStep seconds
MaxTicks == 1
TickStep == resource_expectation_ttl_s \div 2
\* of the transfers active in an initial state, those that end during a run
MaxOldConcluded == 1
\* RESOURCE_ENVELOPE bodies the hub sends: <<resource id, size>>
EnvBodies == {<<1, 1>>, <<9, 2>>, <<9, max_resource_bytes + 1>>}
\* total sizes of the transfers the hub advertises
AdvSizes == {1, 2, max_resource_bytes + 1}
\* room names carried by inbound JOINED / PARTED packets
PktRooms == {"general"}

\* inbound packets handled by the backend in one run
MaxPackets == 2
\* rooms named by inbound MSG packets, and by NOTICE ("" is no room field)
MsgRooms == {"general", "other"}
NoticeRooms == {"", "other"}
\* nicknames carried by inbound MSG packets of the one sender ("" is none)
Nicks == {"", "bob"}
\* hub names carried by WELCOME ("" is none)
HubNames == {"Demo Hub"}

\* identity digests, each written by one letter: the sender of every MSG,
\* the user of a single-member JOINED or PARTED, and the snapshot that a
\* JOINED or PARTED for this client carries
Sender == "d"

OtherUser == "c"

SnapshotUsers == <<"a", "b">>

\* no call of the outbound API is in progress
\* an envelope with nothing wrong, and no call in progress
NoEnv ==
    [map |-> TRUE, missing |-> FALSE, v |-> RRC_VERSION, t |-> 0, mid |-> MidLen,
     src |-> SrcLen, room |-> NoStr, nick |-> NoStr]

NewCall(op, room, text, nick, fits, handler) ==
    [op |-> op, room |-> room, text |-> text, nick |-> nick, fits |-> fits,
     handler |-> handler, env |-> NoEnv]

NoCall == NewCall("none", NoStr, NoStr, NoStr, TRUE, FALSE)

NoOut ==
    [result |-> "none", api |-> <<>>, sent |-> <<>>, warning |-> "",
     callbacks |-> <<>>]

\* no UI command has been answered yet
NoReply == [type |-> "none", key |-> ""]
\* rooms of an initial state that no packet of the run names
FillerRooms == {"room" \o ToString(i) : i \in 1..(MAX_ROOMS - 2)}

\* UI commands and ping-loop rounds in one run
MaxCmds == 1
\* WELCOME packets the hub sends in one run
MaxWelcomes == 2
\* the UI commands that reach the client
UiCommands == {"join_room", "part_room", "send_message", "send_command", "/ping"}

\* room operations of the UI in one run, and the seconds the wall clock runs
MaxRoomOps == 2
MaxWall == 5
\* the rooms the UI names: "general" as typed by two users, another room, a
\* blank name and a name one character too long
RoomInputs ==
    {Str("general", FALSE, 0, 7), Str("general", TRUE, 1, 7),
     Str("other", FALSE, 0, 5), Str("", FALSE, 2, 0),
     Str("long", FALSE, 0, MaxRoomLen + 1)}
\* the room that is active in the UI
CurrentRoom == Str("general", FALSE, 0, 7)

\* a timeout_s shorter than the path wait
short_timeout_s == 3

NoLink == 0
NoExp == [id |-> 0, size |-> 0, created_at |-> 0, expires_at |-> 0, n |-> 0]

VARIABLES
    \* ---- Client (client.py) ----
    link,                     \* Client.link: NoLink or the link object
    client_rooms,             \* Client.rooms
    resource_expectations,    \* Client._resource_expectations, in dict order
    active_resources,         \* Client._active_resources
    resource_to_expectation,  \* Client._resource_to_expectation
    \* ---- threads running client code ----
    wpc, wloc,                \* per transport worker: position and locals
    close_pc, close_loc,      \* the thread running Client.close()
    lc_pc,                    \* the thread running the link-closed callback
    \* ---- transport ----
    linkUp,                   \* the transport still delivers on the link
    transfers,                \* transfers accepted and not yet concluded
    now,                      \* time.monotonic(), in seconds
    \* ---- counters and history ----
    nev,                      \* transport events so far
    matched,                  \* history: (resource, expectation) pairs popped
    adv_results,              \* history: each advertisement, the size of the
                              \* active set it saw, and its outcome
    on_close_calls,           \* history: number of on_close invocations
    \* ---- Client.connect and the handshake (client.py) ----
    conn_pc,                  \* the thread running Client.connect()
    welcomed,                 \* Client._welcomed
    link_made,                \* connect() has constructed the link object
    est_pc,                   \* the link-established callback
    hello_pc, hello_n,        \* the rrc-client-hello thread and its attempts
    hub_hello,                \* HELLO packets the hub has not answered yet
    wel_inflight,             \* WELCOME packets on their way to the client
    wire,                     \* history: envelopes passed to the transport by
                              \* _send, each with the value of welcomed then
    ncmd,                     \* UI commands so far
    \* ---- BackendService (backend.py) ----
    bclient,                  \* BackendService.client is set
    rooms,                    \* BackendService.rooms: name -> message list
    nicknames,                \* BackendService.nicknames
    hub_name,                 \* BackendService.hub_name ("" is None)
    ping_task,                \* BackendService.ping_task is set
    tasks,                    \* coroutines posted to the event loop, in order
    ui,                       \* history: broadcasts written to the websocket
    members,                  \* BackendService.rooms[name]["users"]
    room_operation_times,     \* BackendService.room_operation_times
    wall,                     \* time.time(), in seconds
    fwd,                      \* history: the join and part calls made on the
                              \* client, each with its key and its time
    reply,                    \* the reply to the last UI command
    \* ---- one call of a function, and what it did ----
    call,                     \* the call and its arguments
    out,                      \* its outcome
    \* ---- the clock of one connect() ----
    mono,                     \* time.monotonic() since connect() began
    deadline,                 \* the deadline of the wait connect() is in
    \* ---- Client._resource_concluded after its locked block ----
    concluded,                \* history: each call, its resource, the
                              \* expectation it popped and the env it passed
                              \* to on_notice
    \* ---- the discovery catalog (backend.py) ----
    discovered_hubs,          \* BackendService.discovered_hubs: hash -> last_seen
    hub_cache,                \* the content of discovered_hubs.json
    hub_saves,                \* history: number of times the file was written
    hub_reply,                \* the reply to the last get_discovered_hubs,
                              \* with the catalog and the time it began with
    \* ---- the threads that use the catalog, step by step ----
    gc,                       \* the event loop inside get_discovered_hubs
    ann,                      \* a transport thread inside received_announce
    b_lock,                   \* the owner of BackendService._lock ("" is free)
    hub_writes,               \* history: each change of the catalog, its
                              \* thread, the owner of the lock then, and the
                              \* threads that were iterating the catalog
    \* ---- Client._lock and the calls into the transport ----
    c_lock,                   \* the thread that owns Client._lock ("" is free)
    snd,                      \* a thread inside Client._send
    tcalls,                   \* history: each call of a transport function,
                              \* its thread, and whether that thread owned
                              \* the lock
    lc_loc,                   \* the link-closed callback: its copy of the
                              \* active set, and whether it owned the lock
                              \* when it called on_close
    \* ---- the Client objects the backend creates, one per connect ----
    clients,                  \* every Client created so far, in order
    cur,                      \* BackendService.client: an index, 0 for None
    connecting,               \* the client whose connect() is running
    sreply,                   \* the reply to the last UI command
    carried,                  \* history: the clients whose link carried a
                              \* message of the UI
    \* ---- the rrc-client-hello thread with its clock ----
    hl,                       \* its position and its locals
    hello_log,                \* history: each call of _send_hello, its time
                              \* and whether the packet went out
    \* ---- one call of _find_resource_expectation with its clock ----
    fe,                       \* its position, its size, and the time its
                              \* cleanup read
    match_log,                \* history: each expectation popped, with the
                              \* time read by the cleanup and the time of
                              \* the pop
    \* ---- what last touched Client.rooms ----
    rop,                      \* the last join(), part(), JOINED or PARTED:
                              \* its room as given and how its send ended
    \* ---- the callbacks of the Client, as the transport worker sees them ----
    cbk,                      \* the last callback called, whether it raised,
                              \* and whether an exception left the call site
    \* ---- the announces seen by HubAnnounceHandler ----
    anx                       \* the names in the discovery catalog, the last
                              \* announce and what became of it

resVars == <<link, client_rooms, resource_expectations, active_resources,
             resource_to_expectation, wpc, wloc, close_pc, close_loc, lc_pc,
             linkUp, transfers, now, nev, matched, adv_results,
             on_close_calls>>

connVars == <<conn_pc, welcomed, link_made, est_pc, hello_pc, hello_n, hub_hello,
              wel_inflight, wire, ncmd, bclient>>

beVars == <<rooms, nicknames, hub_name, ping_task, tasks, ui, members>>

rateVars == <<room_operation_times, wall, fwd, reply>>

callVars == <<call, out>>

timeVars == <<mono, deadline>>

hubVars == <<discovered_hubs, hub_cache, hub_saves, hub_reply>>

raceVars == <<gc, ann, b_lock, hub_writes>>

lockVars == <<c_lock, snd, tcalls, lc_loc>>

sessVars == <<clients, cur, connecting, sreply, carried>>

helloVars == <<hl, hello_log>>

expVars == <<fe, match_log>>

moreVars == <<helloVars, expVars, rop, cbk, anx>>

extVars == <<concluded, hubVars, raceVars, lockVars, sessVars, moreVars>>

auxVars == <<rateVars, callVars, timeVars, extVars>>

vars == <<resVars, connVars, beVars, auxVars>>

\* an inbound event as the backend's callbacks receive it
NoEvent ==
    [h |-> "", room |-> "", nick |-> "", single |-> FALSE, name |-> "",
     users |-> <<>>, text |-> ""]

\* a coroutine object: its event, its position, the broadcasts it has still
\* to make
NewTask(e) == [e |-> e, pc |-> "posted", todo |-> <<>>]

(***************************************************************************)
(* Helpers on sequences.                                                   *)
(***************************************************************************)
RemoveAt(s, i) == [j \in 1..(Len(s) - 1) |-> IF j < i THEN s[j] ELSE s[j + 1]]

Range(s) == {s[i] : i \in 1..Len(s)}

(***************************************************************************)
(* Client._resource_expectations is a dict: iteration follows insertion    *)
(* order, and assigning to a key already present keeps its position.       *)
(***************************************************************************)
\* a new _ResourceExpectation (n is a serial number kept for the history)
NewExpectation(rid, size, t, n) ==
    [id |-> rid, size |-> size, created_at |-> t,
     expires_at |-> t + resource_expectation_ttl_s, n |-> n]

\* a faulty variant, for comparison: evict the first entry in dict order, whatever its age
OldestIndexFirst(exps) == 1

\* min(keys, key = created_at): the first entry, in dict order, among those
\* with the smallest created_at
OldestIndex(exps) ==
    CHOOSE i \in 1..Len(exps) :
        /\ \A j \in 1..Len(exps) : exps[i].created_at <= exps[j].created_at
        /\ \A j \in 1..(i - 1) : exps[j].created_at > exps[i].created_at

\* self._resource_expectations[rid] = e
PutExpectation(exps, e) ==
    IF \E i \in 1..Len(exps) : exps[i].id = e.id
    THEN [i \in 1..Len(exps) |-> IF exps[i].id = e.id THEN e ELSE exps[i]]
    ELSE Append(exps, e)

\* the locked block of _on_packet for a valid RESOURCE_ENVELOPE
RecordExpectation(exps, e) ==
    LET kept == IF Len(exps) >= max_pending_resource_expectations
                THEN RemoveAt(exps, OldestIndex(exps))
                ELSE exps
    IN PutExpectation(kept, e)

\* the body checks of _on_packet for a RESOURCE_ENVELOPE
ValidResourceEnvelope(size) == size > 0 /\ size <= max_resource_bytes

\* a faulty variant, for comparison: an entry is kept at its expires_at
CleanupExpiredLate(exps, t) == SelectSeq(exps, LAMBDA e : ~(t > e.expires_at))

\* _cleanup_expired_expectations
CleanupExpired(exps, t) == SelectSeq(exps, LAMBDA e : ~(t >= e.expires_at))

\* a faulty variant, for comparison: take the first pending expectation, whatever its size
FindIndexAnySize(exps, size) == IF Len(exps) > 0 THEN 1 ELSE 0

\* _find_resource_expectation, after the cleanup: index of the first entry
\* of that size, 0 when there is none
FindIndex(exps, size) ==
    IF \E i \in 1..Len(exps) : exps[i].size = size
    THEN CHOOSE i \in 1..Len(exps) :
            /\ exps[i].size = size
            /\ \A j \in 1..(i - 1) : exps[j].size # size
    ELSE 0

\* the two rejections of _resource_advertised that precede the lookup:
\* "" when the advertisement passes both
AdvertiseRefused(size, active) ==
    IF size > max_resource_bytes THEN "too_big"
    ELSE IF Cardinality(active) >= max_active_resources THEN "full"
    ELSE ""

IdleLoc == [t |-> 0, rid |-> 0, size |-> 0, room |-> "", res |-> 0, n |-> 0,
            seen |-> 0, exp |-> NoExp]

\* the packets the hub sends
ResPackets ==
    {[t |-> T_RESOURCE_ENVELOPE, rid |-> b[1], size |-> b[2], room |-> ""] :
        b \in EnvBodies}

RoomPackets ==
    {[t |-> t, rid |-> 0, size |-> 0, room |-> r] :
        t \in {T_JOINED, T_PARTED}, r \in PktRooms}

(***************************************************************************)
(* The client's threads.  Every block the code runs under Client._lock is  *)
(* one step; the steps of different threads interleave.                    *)
(***************************************************************************)

\* ---- Client._on_packet (client.py 739-861), on a transport worker ----

\* the transport hands packet p to the packet callback
PktBegin(w, p) ==
    /\ wpc[w] = "idle"
    /\ linkUp
    /\ nev < MaxEvents
    /\ wloc' = [wloc EXCEPT ![w] = [IdleLoc EXCEPT !.t = p.t, !.rid = p.rid,
                   !.size = p.size, !.room = p.room, !.n = 100 + nev]]
    /\ wpc' = [wpc EXCEPT ![w] = "pkt"]
    /\ nev' = nev + 1
    /\ UNCHANGED <<link, client_rooms, resource_expectations, active_resources,
                   resource_to_expectation, close_pc, close_loc, lc_pc, linkUp,
                   transfers, now, matched, adv_results, on_close_calls>>
    /\ UNCHANGED <<beVars, connVars>>
    /\ UNCHANGED auxVars

\* the dispatch on the envelope type, with its locked block
PktDispatch(w) ==
    /\ wpc[w] = "pkt"
    /\ LET p == wloc[w] IN
        /\ resource_expectations' =
              IF p.t = T_RESOURCE_ENVELOPE /\ ValidResourceEnvelope(p.size)
              THEN RecordExpectation(resource_expectations,
                       NewExpectation(p.rid, p.size, now, p.n))
              ELSE resource_expectations
        /\ client_rooms' =
              IF p.t = T_JOINED THEN client_rooms \cup {p.room}
              ELSE IF p.t = T_PARTED THEN client_rooms \ {p.room}
              ELSE client_rooms
    /\ wpc' = [wpc EXCEPT ![w] = "idle"]
    /\ wloc' = [wloc EXCEPT ![w] = IdleLoc]
    /\ UNCHANGED <<link, active_resources, resource_to_expectation, close_pc,
                   close_loc, lc_pc, linkUp, transfers, now, nev, matched,
                   adv_results, on_close_calls>>
    /\ UNCHANGED <<beVars, connVars>>
    /\ UNCHANGED auxVars

\* ---- Client._resource_advertised (client.py 584-620) ----

\* the transport asks whether to accept a transfer of total size `size`;
\* lines 593-606: the size check and, under the lock, the active-set check
AdvBegin(w, size) ==
    /\ wpc[w] = "idle"
    /\ linkUp
    /\ nev < MaxEvents
    /\ nev' = nev + 1
    /\ LET res == max_active_resources + nev + 1 IN
       IF AdvertiseRefused(size, active_resources) # ""
       THEN /\ adv_results' = adv_results \cup
                 {[res |-> res, size |-> size,
                   seen |-> Cardinality(active_resources),
                   outcome |-> AdvertiseRefused(size, active_resources)]}
            /\ UNCHANGED <<wpc, wloc>>
       ELSE /\ wpc' = [wpc EXCEPT ![w] = "adv_cleanup"]
            /\ wloc' = [wloc EXCEPT ![w] =
                           [IdleLoc EXCEPT !.res = res, !.size = size,
                               !.seen = Cardinality(active_resources)]]
            /\ UNCHANGED adv_results
    /\ UNCHANGED <<link, client_rooms, resource_expectations, active_resources,
                   resource_to_expectation, close_pc, close_loc, lc_pc, linkUp,
                   transfers, now, matched, on_close_calls>>
    /\ UNCHANGED <<beVars, connVars>>
    /\ UNCHANGED auxVars

\* line 576: _cleanup_expired_expectations, under the lock
AdvCleanup(w) ==
    /\ wpc[w] = "adv_cleanup"
    /\ resource_expectations' = CleanupExpired(resource_expectations, now)
    /\ wpc' = [wpc EXCEPT ![w] = "adv_find"]
    /\ UNCHANGED <<link, client_rooms, active_resources, resource_to_expectation,
                   wloc, close_pc, close_loc, lc_pc, linkUp, transfers, now, nev,
                   matched, adv_results, on_close_calls>>
    /\ UNCHANGED <<beVars, connVars>>
    /\ UNCHANGED auxVars

\* lines 578-582 and 608-611: the lookup by size, under the lock
AdvFind(w) ==
    /\ wpc[w] = "adv_find"
    /\ LET i == FindIndex(resource_expectations, wloc[w].size) IN
       IF i = 0
       THEN /\ adv_results' = adv_results \cup
                 {[res |-> wloc[w].res, size |-> wloc[w].size,
                   seen |-> wloc[w].seen, outcome |-> "no_match"]}
            /\ wpc' = [wpc EXCEPT ![w] = "idle"]
            /\ wloc' = [wloc EXCEPT ![w] = IdleLoc]
            /\ UNCHANGED <<resource_expectations, matched>>
       ELSE /\ resource_expectations' = RemoveAt(resource_expectations, i)
            /\ wloc' = [wloc EXCEPT ![w].exp = resource_expectations[i]]
            /\ matched' = matched \cup
                 {[res |-> wloc[w].res, n |-> resource_expectations[i].n,
                   size |-> resource_expectations[i].size]}
            /\ wpc' = [wpc EXCEPT ![w] = "adv_add"]
            /\ UNCHANGED adv_results
    /\ UNCHANGED <<link, client_rooms, active_resources, resource_to_expectation,
                   close_pc, close_loc, lc_pc, linkUp, transfers, now, nev,
                   on_close_calls>>
    /\ UNCHANGED <<beVars, connVars>>
    /\ UNCHANGED auxVars

\* lines 613-620: record the transfer under the lock and accept it
AdvAdd(w) ==
    /\ wpc[w] = "adv_add"
    /\ active_resources' = active_resources \cup {wloc[w].res}
    /\ resource_to_expectation' =
          [r \in DOMAIN resource_to_expectation \cup {wloc[w].res} |->
              IF r = wloc[w].res THEN wloc[w].exp ELSE resource_to_expectation[r]]
    /\ transfers' = transfers \cup {wloc[w].res}
    /\ adv_results' = adv_results \cup
          {[res |-> wloc[w].res, size |-> wloc[w].size,
            seen |-> wloc[w].seen, outcome |-> "accepted"]}
    /\ wpc' = [wpc EXCEPT ![w] = "idle"]
    /\ wloc' = [wloc EXCEPT ![w] = IdleLoc]
    /\ UNCHANGED <<link, client_rooms, resource_expectations, close_pc, close_loc,
                   lc_pc, linkUp, now, nev, matched, on_close_calls>>
    /\ UNCHANGED <<beVars, connVars>>
    /\ UNCHANGED auxVars

\* ---- Client._resource_concluded (client.py 622-630) ----

\* the transfers the transport may conclude during a run
Concludable ==
    {r \in transfers : r >= max_active_resources - MaxOldConcluded}

Concluded(r) ==
    /\ r \in Concludable
    /\ \E w \in Workers : wpc[w] = "idle"
    /\ transfers' = transfers \ {r}
    /\ active_resources' = active_resources \ {r}
    /\ resource_to_expectation' =
          [x \in DOMAIN resource_to_expectation \ {r} |-> resource_to_expectation[x]]
    /\ UNCHANGED <<link, client_rooms, resource_expectations, wpc, wloc, close_pc,
                   close_loc, lc_pc, linkUp, now, nev, matched, adv_results,
                   on_close_calls>>
    /\ UNCHANGED <<beVars, connVars>>
    /\ UNCHANGED auxVars

\* ---- Client.close (client.py 411-439) ----

\* lines 413-421: snapshot and clear under the lock
CloseClear ==
    /\ close_pc = "idle"
    /\ close_loc' = [link |-> link, active |-> active_resources]
    /\ link' = NoLink
    /\ client_rooms' = {}
    /\ resource_expectations' = <<>>
    /\ active_resources' = {}
    /\ resource_to_expectation' = <<>>
    /\ close_pc' = "cancel"
    /\ UNCHANGED <<wpc, wloc, lc_pc, linkUp, transfers, now, nev, matched,
                   adv_results, on_close_calls>>
    /\ UNCHANGED <<beVars, connVars>>
    /\ UNCHANGED auxVars

\* lines 423-433: cancel every transfer of the snapshot
CloseCancel ==
    /\ close_pc = "cancel"
    /\ transfers' = transfers \ close_loc.active
    /\ close_pc' = "teardown"
    /\ UNCHANGED <<link, client_rooms, resource_expectations, active_resources,
                   resource_to_expectation, wpc, wloc, close_loc, lc_pc, linkUp,
                   now, nev, matched, adv_results, on_close_calls>>
    /\ UNCHANGED <<beVars, connVars>>
    /\ UNCHANGED auxVars

\* lines 435-439: tear the link down.  Link.teardown() of the transport runs
\* the link's closed callback before it returns; a link that is already
\* closed has had its callback.
CloseTeardown ==
    /\ close_pc = "teardown"
    /\ IF close_loc.link # NoLink /\ lc_pc = "none"
       THEN /\ linkUp' = FALSE
            /\ lc_pc' = "pending"
            /\ close_pc' = "in_teardown"
       ELSE /\ close_pc' = "returned"
            /\ UNCHANGED <<linkUp, lc_pc>>
    /\ UNCHANGED <<link, client_rooms, resource_expectations, active_resources,
                   resource_to_expectation, wpc, wloc, close_loc, transfers, now,
                   nev, matched, adv_results, on_close_calls>>
    /\ UNCHANGED <<beVars, connVars>>
    /\ UNCHANGED auxVars

\* teardown() returns once the closed callback has run; close() returns
CloseReturn ==
    /\ close_pc = "in_teardown"
    /\ lc_pc = "done"
    /\ close_pc' = "returned"
    /\ UNCHANGED <<link, client_rooms, resource_expectations, active_resources,
                   resource_to_expectation, wpc, wloc, close_loc, lc_pc, linkUp,
                   transfers, now, nev, matched, adv_results, on_close_calls>>
    /\ UNCHANGED <<beVars, connVars>>
    /\ UNCHANGED auxVars

\* ---- the link closes; Client._on_link_closed (client.py 187-218) ----

\* the hub, or a failure of the path, closes the link
LinkDown ==
    /\ link_made
    /\ lc_pc = "none"
    /\ linkUp' = FALSE
    /\ lc_pc' = "pending"
    /\ UNCHANGED <<link, client_rooms, resource_expectations, active_resources,
                   resource_to_expectation, wpc, wloc, close_pc, close_loc,
                   transfers, now, nev, matched, adv_results, on_close_calls>>
    /\ UNCHANGED <<beVars, connVars>>
    /\ UNCHANGED auxVars

\* lines 193-212: one locked block clears the state and cancels the transfers
LinkClosedClear ==
    /\ lc_pc = "pending"
    /\ link' = NoLink
    /\ client_rooms' = {}
    /\ resource_expectations' = <<>>
    /\ transfers' = transfers \ active_resources
    /\ active_resources' = {}
    /\ resource_to_expectation' = <<>>
    /\ lc_pc' = "on_close"
    /\ UNCHANGED <<wpc, wloc, close_pc, close_loc, linkUp, now, nev, matched,
                   adv_results, on_close_calls>>
    /\ UNCHANGED <<beVars, connVars>>
    /\ UNCHANGED auxVars

\* lines 214-218: on_close, outside the lock
LinkClosedOnClose ==
    /\ lc_pc = "on_close"
    /\ on_close_calls' = on_close_calls + 1
    /\ tasks' = Append(tasks, NewTask([NoEvent EXCEPT !.h = "close"]))
    /\ lc_pc' = "done"
    /\ UNCHANGED <<link, client_rooms, resource_expectations, active_resources,
                   resource_to_expectation, wpc, wloc, close_pc, close_loc, linkUp,
                   transfers, now, nev, matched, adv_results>>
    /\ UNCHANGED <<rooms, nicknames, hub_name, ping_task, ui, members, connVars>>
    /\ UNCHANGED auxVars

\* time passes
Tick ==
    /\ now < (MaxTicks + 1) * TickStep
    /\ now' = now + TickStep
    /\ UNCHANGED <<link, client_rooms, resource_expectations, active_resources,
                   resource_to_expectation, wpc, wloc, close_pc, close_loc, lc_pc,
                   linkUp, transfers, nev, matched, adv_results, on_close_calls>>
    /\ UNCHANGED <<beVars, connVars>>
    /\ UNCHANGED auxVars

(***************************************************************************)
(* BackendService: the room table and the event handlers (backend.py).     *)
(* A message list is kept as the number of its records that were there in  *)
(* the initial state (old, always at the front) and the records appended   *)
(* since (new).                                                            *)
(***************************************************************************)
EmptyMessages == [old |-> 0, new |-> <<>>]

MsgLen(m) == m.old + Len(m.new)

\* list.append
MsgAppend(m, rec) == [m EXCEPT !.new = Append(@, rec)]

\* the slice [-n:]
LastN(m, n) ==
    LET drop == MsgLen(m) - n IN
    IF drop <= 0 THEN m
    ELSE IF drop <= m.old THEN [m EXCEPT !.old = @ - drop]
    ELSE [old |-> 0, new |-> SubSeq(m.new, drop - m.old + 1, Len(m.new))]

\* backend.py 787-792, 840-845: append, then keep the last 1000
AppendAndTrim(m, rec) ==
    LET a == MsgAppend(m, rec) IN
    IF MsgLen(a) > MAX_MESSAGES_PER_ROOM THEN LastN(a, MAX_MESSAGES_PER_ROOM)
    ELSE a

\* a faulty variant, for comparison: the room cap compared with > instead of >=
RoomTableFullOffByOne(rs) == Cardinality(DOMAIN rs) > MAX_ROOMS

\* len(self.rooms) >= self.max_rooms
RoomTableFull(rs) == Cardinality(DOMAIN rs) >= MAX_ROOMS

\* self.rooms[room] = {"messages": [], ...} when the room is absent
WithRoom(rs, r) ==
    [x \in DOMAIN rs \cup {r} |-> IF x \in DOMAIN rs THEN rs[x] ELSE EmptyMessages]

\* the member list of a JOINED or PARTED body: one digest for another user's
\* event, the snapshot of the room for this client's own
UserList(single) == IF single THEN <<OtherUser>> ELSE SnapshotUsers

BackendEvents ==
    {[NoEvent EXCEPT !.h = "message", !.room = r, !.nick = k] :
        r \in MsgRooms, k \in Nicks}
    \cup {[NoEvent EXCEPT !.h = "notice", !.room = r] : r \in NoticeRooms}
    \cup {[NoEvent EXCEPT !.h = hh, !.room = "general", !.single = b,
                           !.users = UserList(b)] :
        hh \in {"joined", "parted"}, b \in BOOLEAN}
    \cup {[NoEvent EXCEPT !.h = "welcome", !.name = n] : n \in HubNames}

\* a broadcast, tagged with the coroutine that makes it
Bc(i, type, room, text) == [pkt |-> i, type |-> type, room |-> room, text |-> text]

\* backend.py 1211-1227: the nickname and the first 8 hex digits, or the
\* first 16 hex digits when no nickname is known; a digest is written here
\* by one letter and nicknames holds the nickname of Sender
FormatUser(u) ==
    IF u = Sender /\ nicknames # ""
    THEN nicknames \o " (" \o u \o ")"
    ELSE u \o "..."

\* a broadcast that carries a user list
BcUsers(i, type, room, users) ==
    [pkt |-> i, type |-> type, room |-> room, text |-> "", users |-> users]

\* backend.py 986, 1067: the user list of this broadcast is read from the
\* room table when the coroutine resumes after the broadcast before it
BcUsersLate(i, room) ==
    [pkt |-> i, type |-> "user_list_update", room |-> room, text |-> "",
     late |-> TRUE]

\* self.rooms[room] = {..., "users": set()} when the room is absent
WithMembers(ms, r) ==
    [x \in DOMAIN ms \cup {r} |-> IF x \in DOMAIN ms THEN ms[x] ELSE {}]

\* backend.py 343-366: a client callback posts the handler's coroutine with
\* run_coroutine_threadsafe
Post(e) ==
    /\ Len(tasks) < MaxPackets
    /\ tasks' = Append(tasks, NewTask(e))
    /\ UNCHANGED <<rooms, nicknames, hub_name, ping_task, ui, members, resVars,
                   connVars>>
    /\ UNCHANGED auxVars

\* the event loop starts coroutines in the order they were posted
Runnable(i, h) ==
    /\ i \in 1..Len(tasks)
    /\ tasks[i].pc = "posted"
    /\ tasks[i].e.h = h
    /\ \A j \in 1..(i - 1) : tasks[j].pc # "posted"

\* the handler runs to its first broadcast: HTTPServer.broadcast (main.py
\* 293-309) writes to the websocket and awaits, where the coroutine may be
\* suspended; a handler without a broadcast runs to its end
RunTo(i, bs) ==
    IF bs = <<>>
    THEN /\ tasks' = [tasks EXCEPT ![i].pc = "done"]
         /\ ui' = ui
    ELSE /\ tasks' = [tasks EXCEPT ![i].pc = "sending", ![i].todo = Tail(bs)]
         /\ ui' = Append(ui, Head(bs))

\* backend.py 734-808
OnMessage(i) ==
    /\ Runnable(i, "message")
    /\ LET e == tasks[i].e
           nickname_changed == e.nick # "" /\ nicknames # e.nick
           message == Bc(i, "message", e.room, "")
       IN /\ nicknames' = IF nickname_changed THEN e.nick ELSE nicknames
          /\ IF e.room \notin DOMAIN rooms /\ RoomTableFull(rooms)
             THEN /\ rooms' = rooms
                  /\ members' = members
                  /\ RunTo(i, <<>>)
             ELSE /\ rooms' = [WithRoom(rooms, e.room) EXCEPT
                                  ![e.room] = AppendAndTrim(@, message)]
                  /\ members' = [WithMembers(members, e.room) EXCEPT
                                    ![e.room] = @ \cup {Sender}]
                  /\ RunTo(i, (IF nickname_changed
                               THEN <<BcUsers(i, "user_list_update", e.room,
                                        {FormatUser(u)' : u \in members'[e.room]})>>
                               ELSE <<>>) \o <<message>>)
    /\ UNCHANGED <<hub_name, ping_task, resVars, connVars>>
    /\ UNCHANGED auxVars

\* backend.py 810-848
OnNotice(i) ==
    /\ Runnable(i, "notice")
    /\ LET e == tasks[i].e
           target_room == IF e.room = "" THEN HubRoom ELSE e.room
           message == Bc(i, "notice", target_room, e.text)
       IN IF target_room \notin DOMAIN rooms /\ RoomTableFull(rooms)
          THEN /\ rooms' = rooms
               /\ members' = members
               /\ RunTo(i, <<>>)
          ELSE /\ rooms' = [WithRoom(rooms, target_room) EXCEPT
                               ![target_room] = AppendAndTrim(@, message)]
               /\ members' = WithMembers(members, target_room)
               /\ RunTo(i, <<message>>)
    /\ UNCHANGED <<nicknames, hub_name, ping_task, resVars, connVars>>
    /\ UNCHANGED auxVars

\* a faulty variant, for comparison: the user is not recorded
AddMemberLost(old, u) == old

\* backend.py 974: self.rooms[room]["users"].add(user_hex)
AddMember(old, u) == old \cup {u}

\* backend.py 939-943: each digest of the list is added to the room's set
JoinedMembers(old, users) == old \cup Range(users)

\* backend.py 898-997
OnJoined(i) ==
    /\ Runnable(i, "joined")
    /\ LET e == tasks[i].e IN
       IF Len(e.users) # 1
       THEN IF e.room \notin DOMAIN rooms /\ RoomTableFull(rooms)
            THEN /\ rooms' = rooms
                 /\ members' = members
                 /\ RunTo(i, <<Bc(i, "error", "", "")>>)
            ELSE LET message == Bc(i, "system", e.room, "Joined room")
                     users == [k \in 1..Len(e.users) |-> FormatUser(e.users[k])]
                 IN
                 /\ rooms' = [WithRoom(rooms, e.room) EXCEPT
                                 ![e.room] = MsgAppend(@, message)]
                 /\ members' = [WithMembers(members, e.room) EXCEPT
                                   ![e.room] = JoinedMembers(@, e.users)]
                 /\ RunTo(i, <<message,
                               BcUsers(i, "room_joined", e.room, users)>>)
       ELSE IF e.room \notin DOMAIN rooms
            THEN /\ rooms' = rooms
                 /\ members' = members
                 /\ RunTo(i, <<>>)
            ELSE LET message == Bc(i, "join", e.room, FormatUser(e.users[1])) IN
                 /\ rooms' = [rooms EXCEPT ![e.room] = MsgAppend(@, message)]
                 /\ members' = [members EXCEPT ![e.room] = AddMember(@, e.users[1])]
                 /\ RunTo(i, <<message, BcUsersLate(i, e.room)>>)
    /\ UNCHANGED <<nicknames, hub_name, ping_task, resVars, connVars>>
    /\ UNCHANGED auxVars

\* backend.py 999-1078
OnParted(i) ==
    /\ Runnable(i, "parted")
    /\ LET e == tasks[i].e IN
       IF Len(e.users) # 1
       THEN LET message == Bc(i, "system", e.room, "Left room") IN
            /\ rooms' = IF e.room \in DOMAIN rooms
                        THEN [rooms EXCEPT ![e.room] = MsgAppend(@, message)]
                        ELSE rooms
            /\ members' = members
            /\ RunTo(i, <<message, Bc(i, "room_parted", e.room, "")>>)
       ELSE IF e.room \notin DOMAIN rooms
            THEN /\ rooms' = rooms
                 /\ members' = members
                 /\ RunTo(i, <<>>)
            ELSE LET message == Bc(i, "part", e.room, FormatUser(e.users[1])) IN
                 /\ rooms' = [rooms EXCEPT ![e.room] = MsgAppend(@, message)]
                 /\ members' = [members EXCEPT ![e.room] = @ \ {e.users[1]}]
                 /\ RunTo(i, <<message, BcUsersLate(i, e.room)>>)
    /\ UNCHANGED <<nicknames, hub_name, ping_task, resVars, connVars>>
    /\ UNCHANGED auxVars

\* backend.py 865-893: the part of _on_welcome before its first await
OnWelcome(i) ==
    /\ Runnable(i, "welcome")
    /\ LET e == tasks[i].e
           name == IF e.name # "" THEN e.name ELSE hub_name
           message == Bc(i, "notice", HubRoom,
                         IF name # "" THEN "Connected to hub: " \o name
                         ELSE "Connected to hub")
       IN /\ hub_name' = name
          /\ rooms' = [WithRoom(rooms, HubRoom) EXCEPT
                          ![HubRoom] = MsgAppend(@, message)]
          /\ members' = WithMembers(members, HubRoom)
          /\ RunTo(i, <<message>> \o
                      (IF name # "" THEN <<Bc(i, "hub_info", "", name)>>
                       ELSE <<>>))
    /\ UNCHANGED <<nicknames, ping_task, resVars, connVars>>
    /\ UNCHANGED auxVars

\* backend.py 1080-1096
OnClose(i) ==
    /\ Runnable(i, "close")
    /\ ping_task' = FALSE
    /\ RunTo(i, <<Bc(i, "system", HubRoom, "Disconnected from hub"),
                  Bc(i, "disconnected", "", "")>>)
    /\ UNCHANGED <<rooms, nicknames, hub_name, members, resVars, connVars>>
    /\ UNCHANGED auxVars

\* a suspended handler is resumed: it makes its next broadcast, or runs to
\* its end (_on_welcome, lines 895-896, then creates the ping task)
Resume(i) ==
    /\ i \in 1..Len(tasks)
    /\ tasks[i].pc = "sending"
    /\ IF tasks[i].todo # <<>>
       THEN LET b == Head(tasks[i].todo) IN
            IF "late" \notin DOMAIN b
            THEN /\ ui' = Append(ui, b)
                 /\ tasks' = [tasks EXCEPT ![i].todo = Tail(@)]
                 /\ UNCHANGED ping_task
            ELSE IF b.room \in DOMAIN members
            THEN /\ ui' = Append(ui, BcUsers(b.pkt, b.type, b.room,
                                    {FormatUser(u) : u \in members[b.room]}))
                 /\ tasks' = [tasks EXCEPT ![i].todo = Tail(@)]
                 /\ UNCHANGED ping_task
            ELSE \* self.rooms[room] raises KeyError: the coroutine ends
                 /\ tasks' = [tasks EXCEPT ![i].pc = "done", ![i].todo = <<>>]
                 /\ UNCHANGED <<ui, ping_task>>
       ELSE /\ tasks' = [tasks EXCEPT ![i].pc = "done"]
            /\ ping_task' = (ping_task \/ tasks[i].e.h = "welcome")
            /\ UNCHANGED ui
    /\ UNCHANGED <<rooms, nicknames, hub_name, members, resVars, connVars>>
    /\ UNCHANGED auxVars

(***************************************************************************)
(* Client.connect, the handshake, and the backend commands that drive the  *)
(* client (client.py 148-185, 276-409, 706-737; backend.py 296-604).       *)
(* The model follows one client object: one connect and one disconnect.    *)
(***************************************************************************)

\* backend.py 296-394 and client.py 294-296: the backend creates the client,
\* wires its callbacks and runs connect() on the executor
HandleConnect ==
    /\ ~bclient
    /\ conn_pc = "idle"
    /\ bclient' = TRUE
    /\ welcomed' = FALSE
    /\ conn_pc' = "path_wait"
    /\ UNCHANGED <<link_made, est_pc, hello_pc, hello_n, hub_hello, wel_inflight,
                   wire, ncmd, resVars, beVars>>
    /\ UNCHANGED auxVars

\* client.py 298-308: the path shows up, or min(5, timeout) seconds pass
ConnPathWait ==
    /\ conn_pc = "path_wait"
    /\ conn_pc' = "recall"
    /\ UNCHANGED <<welcomed, link_made, est_pc, hello_pc, hello_n, hub_hello,
                   wel_inflight, wire, ncmd, bclient, resVars, beVars>>
    /\ UNCHANGED auxVars

\* client.py 310-345: the hub's identity is recalled and its hash matches
ConnRecall ==
    /\ conn_pc = "recall"
    /\ conn_pc' = "make_link"
    /\ UNCHANGED <<welcomed, link_made, est_pc, hello_pc, hello_n, hub_hello,
                   wel_inflight, wire, ncmd, bclient, resVars, beVars>>
    /\ UNCHANGED auxVars

\* client.py 321-345: the identity never resolves (TimeoutError), or the
\* hash does not match (ValueError)
ConnRecallFail ==
    /\ conn_pc = "recall"
    /\ conn_pc' = "failed"
    /\ UNCHANGED <<welcomed, link_made, est_pc, hello_pc, hello_n, hub_hello,
                   wel_inflight, wire, ncmd, bclient, resVars, beVars>>
    /\ UNCHANGED auxVars

\* client.py 389-394: the link object is constructed and the link request
\* goes out
ConnMakeLink ==
    /\ conn_pc = "make_link"
    /\ link_made' = TRUE
    /\ conn_pc' = "store_link"
    /\ UNCHANGED <<welcomed, est_pc, hello_pc, hello_n, hub_hello, wel_inflight,
                   wire, ncmd, bclient, resVars, beVars>>
    /\ UNCHANGED auxVars

\* client.py 396-397
ConnStoreLink ==
    /\ conn_pc = "store_link"
    /\ link' = 1
    /\ conn_pc' = "wait_welcome"
    /\ UNCHANGED <<client_rooms, resource_expectations, active_resources,
                   resource_to_expectation, wpc, wloc, close_pc, close_loc,
                   lc_pc, linkUp, transfers, now, nev, matched, adv_results,
                   on_close_calls>>
    /\ UNCHANGED <<welcomed, link_made, est_pc, hello_pc, hello_n, hub_hello,
                   wel_inflight, wire, ncmd, bclient, beVars>>
    /\ UNCHANGED auxVars

\* client.py 402, 409: the wait on the event ends with the event set
ConnWelcomed ==
    /\ conn_pc = "wait_welcome"
    /\ welcomed
    /\ conn_pc' = "returned_ok"
    /\ UNCHANGED <<welcomed, link_made, est_pc, hello_pc, hello_n, hub_hello,
                   wel_inflight, wire, ncmd, bclient, resVars, beVars>>
    /\ UNCHANGED auxVars

\* client.py 402-408: timeout_s seconds pass with the event not set;
\* connect() raises TimeoutError
ConnTimeout ==
    /\ conn_pc = "wait_welcome"
    /\ ~welcomed
    /\ conn_pc' = "timeout"
    /\ UNCHANGED <<welcomed, link_made, est_pc, hello_pc, hello_n, hub_hello,
                   wel_inflight, wire, ncmd, bclient, resVars, beVars>>
    /\ UNCHANGED auxVars

\* client.py 160-185, 376-378: the transport establishes the link and runs
\* the established callback, which identifies and starts the hello thread
Established ==
    /\ link_made
    /\ est_pc = "none"
    /\ lc_pc = "none"
    /\ linkUp' = TRUE
    /\ est_pc' = "done"
    /\ hello_pc' = "run"
    /\ UNCHANGED <<link, client_rooms, resource_expectations, active_resources,
                   resource_to_expectation, wpc, wloc, close_pc, close_loc,
                   lc_pc, transfers, now, nev, matched, adv_results,
                   on_close_calls>>
    /\ UNCHANGED <<conn_pc, welcomed, link_made, hello_n, hub_hello,
                   wel_inflight, wire, ncmd, bclient, beVars>>
    /\ UNCHANGED auxVars

\* client.py 170-176: identify() raises; the callback tears the link down
EstablishedIdentifyFails ==
    /\ link_made
    /\ est_pc = "none"
    /\ lc_pc = "none"
    /\ est_pc' = "done"
    /\ lc_pc' = "pending"
    /\ UNCHANGED <<link, client_rooms, resource_expectations, active_resources,
                   resource_to_expectation, wpc, wloc, close_pc, close_loc,
                   linkUp, transfers, now, nev, matched, adv_results,
                   on_close_calls>>
    /\ UNCHANGED <<conn_pc, welcomed, link_made, hello_pc, hello_n, hub_hello,
                   wel_inflight, wire, ncmd, bclient, beVars>>
    /\ UNCHANGED auxVars

\* client.py 355-358: the loop ends because the event is set, or because
\* self.link is not the link the thread was started for
HelloExit ==
    /\ hello_pc = "run"
    /\ welcomed \/ link # 1
    /\ hello_pc' = "exited"
    /\ UNCHANGED <<conn_pc, welcomed, link_made, est_pc, hello_n, hub_hello,
                   wel_inflight, wire, ncmd, bclient, resVars, beVars>>
    /\ UNCHANGED auxVars

\* client.py 148-158, 355-372: one HELLO; a HELLO sent on a closed link is
\* lost
HelloSendAttempt ==
    /\ hello_pc = "run"
    /\ ~welcomed
    /\ link = 1
    /\ hello_n < hello_max_attempts
    /\ hello_n' = hello_n + 1
    /\ hub_hello' = IF linkUp THEN hub_hello + 1 ELSE hub_hello
    /\ UNCHANGED <<conn_pc, welcomed, link_made, est_pc, hello_pc, wel_inflight,
                   wire, ncmd, bclient, resVars, beVars>>
    /\ UNCHANGED auxVars

\* the first HELLO goes out at once
HelloSend ==
    /\ hello_n = 0
    /\ HelloSendAttempt

\* a later HELLO goes out hello_interval_s after the one before
HelloResend ==
    /\ hello_n > 0
    /\ HelloSendAttempt

\* client.py 355: the deadline of the loop passes
HelloDeadline ==
    /\ hello_pc = "run"
    /\ hello_pc' = "exited"
    /\ UNCHANGED <<conn_pc, welcomed, link_made, est_pc, hello_n, hub_hello,
                   wel_inflight, wire, ncmd, bclient, resVars, beVars>>
    /\ UNCHANGED auxVars

\* the hub answers a HELLO with WELCOME
HubWelcome ==
    /\ hub_hello > 0
    /\ linkUp
    /\ Cardinality({i \in 1..Len(tasks) : tasks[i].e.h = "welcome"})
          + wel_inflight < MaxWelcomes
    /\ hub_hello' = hub_hello - 1
    /\ wel_inflight' = wel_inflight + 1
    /\ UNCHANGED <<conn_pc, welcomed, link_made, est_pc, hello_pc, hello_n,
                   wire, ncmd, bclient, resVars, beVars>>
    /\ UNCHANGED auxVars

\* client.py 739-753, 821-831 and backend.py 352-354: a WELCOME packet sets
\* the event and posts _on_welcome
PktWelcome ==
    /\ wel_inflight > 0
    /\ linkUp
    /\ wel_inflight' = wel_inflight - 1
    /\ welcomed' = TRUE
    /\ \E n \in HubNames :
          tasks' = Append(tasks, NewTask([NoEvent EXCEPT !.h = "welcome", !.name = n]))
    /\ UNCHANGED <<conn_pc, link_made, est_pc, hello_pc, hello_n, hub_hello,
                   wire, ncmd, bclient, resVars>>
    /\ UNCHANGED <<rooms, nicknames, hub_name, ping_task, ui, members>>
    /\ UNCHANGED auxVars

\* the envelope type a UI command makes the client send
CmdType(c) ==
    IF c = "join_room" THEN T_JOIN
    ELSE IF c = "part_room" THEN T_PART
    ELSE IF c = "/ping" THEN T_PING
    ELSE T_MSG

\* client.py 706-737: _send raises if self.link is None, else hands the
\* packet to the transport, which carries it if the link is established and
\* open
Send(t) ==
    IF link = NoLink \/ ~linkUp THEN wire
    ELSE wire \cup {[t |-> t, welcomed |-> welcomed]}

\* backend.py 454-604, 652-704: join_room, part_room, send_message,
\* send_command and /ping call the client whenever self.client is set
UiCommand(c) ==
    /\ bclient
    /\ ncmd < MaxCmds
    /\ ncmd' = ncmd + 1
    /\ wire' = Send(CmdType(c))
    /\ UNCHANGED <<conn_pc, welcomed, link_made, est_pc, hello_pc, hello_n,
                   hub_hello, wel_inflight, bclient, resVars, beVars>>
    /\ UNCHANGED auxVars

\* backend.py 1111-1128: a round of the ping loop
PingLoopRound ==
    /\ ping_task
    /\ bclient
    /\ ncmd < MaxCmds
    /\ ncmd' = ncmd + 1
    /\ wire' = Send(T_PING)
    /\ UNCHANGED <<conn_pc, welcomed, link_made, est_pc, hello_pc, hello_n,
                   hub_hello, wel_inflight, bclient, resVars, beVars>>
    /\ UNCHANGED auxVars

\* backend.py 431-439: disconnect runs Client.close() on the executor
HandleDisconnect ==
    /\ bclient
    /\ CloseClear

\* backend.py 440-444: close() has returned
DisconnectDone ==
    /\ close_pc = "returned"
    /\ bclient
    /\ bclient' = FALSE
    /\ rooms' = [r \in {HubRoom} |-> EmptyMessages]
    /\ members' = [r \in {HubRoom} |-> {}]
    /\ hub_name' = ""
    /\ UNCHANGED <<conn_pc, welcomed, link_made, est_pc, hello_pc, hello_n,
                   hub_hello, wel_inflight, wire, ncmd, resVars>>
    /\ UNCHANGED <<nicknames, ping_task, tasks, ui>>
    /\ UNCHANGED auxVars

(***************************************************************************)
(* Operations on strings.                                                  *)
(***************************************************************************)
\* len(s)
RawLen(s) == s.len + s.pad

\* s.strip()
Strip(s) == [s EXCEPT !.pad = 0]

\* s.lower()
Lower(s) == [s EXCEPT !.caps = FALSE]

\* utils.py 69-85
normalize_room_name(room) ==
    LET normalized == Lower(Strip(room)) IN
    IF room.none \/ normalized.len = 0 THEN NoStr ELSE normalized

\* f"join:{normalized_room}", f"part:{normalized_room}"
OpKey(op, room) == op \o ":" \o room.base

(***************************************************************************)
(* The rate limit of the room operations (backend.py 1229-1253).           *)
(***************************************************************************)
\* a faulty variant, for comparison: one operation more is let through
RateExceededOffByOne(times) == Len(times) > room_op_rate_limit

\* len(self.room_operation_times[operation_key]) >= self.room_op_rate_limit
RateExceeded(times) == Len(times) >= room_op_rate_limit

\* [t for t in times if now - t < self.room_op_rate_window]
InWindow(times, t_now) ==
    SelectSeq(times, LAMBDA t : t_now - t < room_op_rate_window)

\* the table once the key is present and its list is pruned
PrunedTimes(key) ==
    [k \in DOMAIN room_operation_times \cup {key} |->
        IF k = key
        THEN InWindow(IF k \in DOMAIN room_operation_times
                      THEN room_operation_times[k] ELSE <<>>, wall)
        ELSE room_operation_times[k]]

\* backend.py 1229-1253: TRUE when the operation is allowed
check_room_operation_rate_limit(key) ==
    ~RateExceeded(PrunedTimes(key)[key])

\* the table after the check
TimesAfterCheck(key) ==
    IF check_room_operation_rate_limit(key)
    THEN [PrunedTimes(key) EXCEPT ![key] = Append(@, wall)]
    ELSE PrunedTimes(key)

Reply(type, key) == [type |-> type, key |-> key]

\* backend.py 454-491 (op = "join") and 493-530 (op = "part"): the handler
\* of a room operation, from its checks to the call on the client
HandleRoomOp(op, room) ==
    LET normalized_room == normalize_room_name(room)
        key == OpKey(op, normalized_room)
    IN IF RawLen(room) > MaxRoomLen \/ normalized_room = NoStr
       THEN /\ reply' = Reply("invalid_room", "")
            /\ UNCHANGED <<room_operation_times, fwd, wire>>
       ELSE IF ~bclient
       THEN /\ reply' = Reply("not_connected", "")
            /\ UNCHANGED <<room_operation_times, fwd, wire>>
       ELSE /\ room_operation_times' = TimesAfterCheck(key)
            /\ IF check_room_operation_rate_limit(key)
               THEN /\ fwd' = Append(fwd, [key |-> key, at |-> wall])
                    /\ wire' = Send(IF op = "join" THEN T_JOIN ELSE T_PART)
                    /\ reply' = Reply(op \o "_requested", key)
               ELSE /\ reply' = Reply("too_many_requests", key)
                    /\ UNCHANGED <<fwd, wire>>

RoomOpFrame ==
    /\ ncmd < MaxRoomOps
    /\ ncmd' = ncmd + 1
    /\ UNCHANGED <<conn_pc, welcomed, link_made, est_pc, hello_pc, hello_n,
                   hub_hello, wel_inflight, bclient, resVars, beVars>>
    /\ UNCHANGED <<wall, callVars, timeVars, extVars>>

\* the UI sends join_room
HandleJoinRoom(room) ==
    /\ HandleRoomOp("join", room)
    /\ RoomOpFrame

\* the UI sends part_room
HandlePartRoom(room) ==
    /\ HandleRoomOp("part", room)
    /\ RoomOpFrame

\* backend.py 532-604: the UI sends send_message in the room "general" with
\* the text "/join <arg>" or "/part <arg>".  The text passes the checks of
\* _handle_send_message; split() leaves the argument stripped; with no
\* argument /join is sent on as a message and /part names the current room
HandleSlashCommand(cmd, arg) ==
    /\ IF ~bclient
       THEN /\ reply' = Reply("not_connected", "")
            /\ UNCHANGED <<room_operation_times, fwd, wire>>
       ELSE IF Strip(arg).len > 0
       THEN HandleRoomOp(cmd, Strip(arg))
       ELSE IF cmd = "part"
       THEN HandleRoomOp(cmd, CurrentRoom)
       ELSE /\ wire' = Send(T_MSG)
            /\ reply' = Reply("message_sent", "")
            /\ UNCHANGED <<room_operation_times, fwd>>
    /\ RoomOpFrame

\* time.time() advances
WallTick ==
    /\ wall < MaxWall
    /\ wall' = wall + 1
    /\ UNCHANGED <<room_operation_times, fwd, reply, callVars, timeVars, extVars>>
    /\ UNCHANGED <<resVars, connVars, beVars>>

(***************************************************************************)
(* Envelopes (envelope.py).  An envelope is written by what validation     *)
(* looks at: whether it is a map, whether a required key is missing, its   *)
(* version and type, the lengths of its id and source, its room and nick   *)
(* (NoStr when the key is absent).                                         *)
(***************************************************************************)
\* envelope.py 40-79; self.identity.hash is SrcLen bytes long
make_envelope(t, room, nick) ==
    [map |-> TRUE, missing |-> FALSE, v |-> RRC_VERSION, t |-> t,
     mid |-> MidLen, src |-> SrcLen, room |-> room, nick |-> nick]

\* a faulty variant, for comparison: the version is not looked at
validate_envelope_any_version(env) ==
    /\ env.map
    /\ ~env.missing
    /\ env.t >= 0
    /\ env.mid = MidLen
    /\ env.src \in {SrcLen, 2 * SrcLen}
    /\ env.room.none \/ (RawLen(env.room) > 0 /\ RawLen(env.room) <= MaxEnvRoomLen)
    /\ env.nick.none \/ (RawLen(env.nick) > 0 /\ RawLen(env.nick) <= MaxEnvNickLen)

\* envelope.py 82-158: TRUE when validate_envelope returns without raising
validate_envelope(env) ==
    /\ env.map
    /\ ~env.missing
    /\ env.v = RRC_VERSION
    /\ env.t >= 0
    /\ env.mid = MidLen
    /\ env.src \in {SrcLen, 2 * SrcLen}
    /\ env.room.none \/ (RawLen(env.room) > 0 /\ RawLen(env.room) <= MaxEnvRoomLen)
    /\ env.nick.none \/ (RawLen(env.nick) > 0 /\ RawLen(env.nick) <= MaxEnvNickLen)

(***************************************************************************)
(* The outbound API of the client (client.py 441-537, 706-737).  A call    *)
(* has an outcome: how it ended, the calls it made on the client, the      *)
(* envelopes it handed to the link, the warning it gave, and the callbacks *)
(* it fired.                                                               *)
(***************************************************************************)
Outcome(result, sent, warning) ==
    [result |-> result, api |-> <<>>, sent |-> sent, warning |-> warning,
     callbacks |-> <<>>]

\* client.py 727-732
WarningText(t) ==
    IF t = T_MSG
    THEN "Message is too large to send. Please shorten your message."
    ELSE IF t = T_NOTICE
    THEN "Notice is too large to send. Please shorten the notice."
    ELSE "Message is too large to send over this link."

\* a faulty variant, for comparison: the packet is sent without the check
SendOutcomeNoPrecheck(env, fits, handler) ==
    IF link = NoLink THEN Outcome("RuntimeError", <<>>, "")
    ELSE Outcome("ok", <<env>>, "")

\* a faulty variant, for comparison: the link is not looked at
SendOutcomeNoLinkCheck(env, fits, handler) ==
    IF ~fits
    THEN Outcome("MessageTooLargeError", <<>>,
                 IF handler THEN WarningText(env.t) ELSE "")
    ELSE Outcome("ok", <<env>>, "")

\* client.py 706-737: _send; fits is the answer of _packet_would_fit
\* (539-555), handler is whether on_resource_warning is set
SendOutcome(env, fits, handler) ==
    IF link = NoLink THEN Outcome("RuntimeError", <<>>, "")
    ELSE IF ~fits
    THEN Outcome("MessageTooLargeError", <<>>,
                 IF handler THEN WarningText(env.t) ELSE "")
    ELSE Outcome("ok", <<env>>, "")

\* client.py 441-537: join, part, msg, notice and ping, up to the return of
\* _send; nick is self.nickname
ApiOutcome(op, room, text, nick, fits, handler) ==
    LET r == Lower(Strip(room)) IN
    IF op = "ping" THEN SendOutcome(make_envelope(T_PING, NoStr, NoStr), fits, handler)
    ELSE IF room.none \/ r.len = 0 THEN Outcome("ValueError", <<>>, "")
    ELSE IF op = "join"
    THEN SendOutcome(make_envelope(T_JOIN, r, NoStr), fits, handler)
    ELSE IF op = "part"
    THEN SendOutcome(make_envelope(T_PART, r, NoStr), fits, handler)
    ELSE IF text.none \/ Strip(text).len = 0 THEN Outcome("ValueError", <<>>, "")
    ELSE SendOutcome(make_envelope(IF op = "msg" THEN T_MSG ELSE T_NOTICE, r, nick),
                     fits, handler)

\* client.py 477-479: part() discards the room once _send has returned
RoomsAfter(op, room, o) ==
    IF op = "part" /\ o.result = "ok"
    THEN client_rooms \ {Lower(Strip(room)).base}
    ELSE client_rooms

\* a call leaves the rest alone
CallFrame ==
    /\ UNCHANGED <<link, resource_expectations, active_resources,
                   resource_to_expectation, wpc, wloc, close_pc, close_loc,
                   lc_pc, linkUp, transfers, now, nev, matched, adv_results,
                   on_close_calls>>
    /\ UNCHANGED <<connVars, beVars, rateVars, timeVars, extVars>>

\* one call of the outbound API
ApiCall(op, room, text, nick, fits, handler) ==
    /\ call.op = "none"
    /\ call' = NewCall(op, room, text, nick, fits, handler)
    /\ out' = ApiOutcome(op, room, text, nick, fits, handler)
    /\ client_rooms' = RoomsAfter(op, room, out')
    /\ CallFrame

\* client.py 148-158: _send_hello on an established link hands the packet
\* to the transport at once; a payload the link cannot pack makes send()
\* raise
SendHello(nick, fits) ==
    /\ call.op = "none"
    /\ link # NoLink
    /\ call' = NewCall("hello", NoStr, NoStr, nick, fits, FALSE)
    /\ out' = IF fits
              THEN Outcome("ok", <<make_envelope(T_HELLO, NoStr, nick)>>, "")
              ELSE Outcome("OSError", <<>>, "")
    /\ UNCHANGED client_rooms
    /\ CallFrame

(***************************************************************************)
(* The backend's paths to the outbound API.                                *)
(***************************************************************************)
\* utils.py 88-119
sanitize_text_input(text, limit) ==
    LET sanitized == Strip(text) IN
    IF text.none \/ sanitized.len = 0 THEN NoStr
    ELSE IF sanitized.len > limit THEN NoStr
    ELSE IF sanitized.ctl THEN NoStr
    ELSE sanitized

\* the outcome of a handler that calls the client: the handler's reply, the
\* call it made, and what the call did
Forward(result, op, room, text, o) ==
    [o EXCEPT !.result = result,
              !.api = <<[op |-> op, room |-> room, text |-> text]>>]

\* backend.py 532-604: _handle_send_message, and _handle_command for /ping
\* and for the commands it does not know
SendMessageOutcome(room, text, nick, fits) ==
    LET normalized_room == normalize_room_name(room)
        sanitized_text == sanitize_text_input(text, max_length)
        viaMsg == ApiOutcome("msg", normalized_room, sanitized_text, nick, fits, FALSE)
        viaPing == ApiOutcome("ping", NoStr, NoStr, nick, fits, FALSE)
    IN IF room.none \/ RawLen(room) > MaxRoomLen THEN Outcome("invalid_room", <<>>, "")
       ELSE IF text.none \/ RawLen(text) > MaxTextLen
       THEN Outcome("invalid_text", <<>>, "")
       ELSE IF ~bclient THEN Outcome("not_connected", <<>>, "")
       ELSE IF normalized_room = NoStr THEN Outcome("invalid_room", <<>>, "")
       ELSE IF sanitized_text = NoStr THEN Outcome("invalid_text", <<>>, "")
       ELSE IF sanitized_text.cmd = "/ping"
       THEN Forward(IF viaPing.result = "ok" THEN "command_executed" ELSE "error",
                    "ping", NoStr, NoStr, viaPing)
       ELSE Forward(IF viaMsg.result = "ok" THEN "message_sent" ELSE "error",
                    "msg", normalized_room, sanitized_text, viaMsg)

\* the UI sends send_message
HandleSendMessage(room, text, nick, fits) ==
    /\ call.op = "none"
    /\ call' = NewCall("send_message", room, text, nick, fits, FALSE)
    /\ out' = SendMessageOutcome(room, text, nick, fits)
    /\ UNCHANGED client_rooms
    /\ CallFrame

\* backend.py 396-398: connect() has returned and the configuration names
\* a room to join
AutoJoin(auto_join, fits) ==
    /\ call.op = "none"
    /\ bclient
    /\ ~auto_join.none /\ RawLen(auto_join) > 0
    /\ call' = NewCall("auto_join", auto_join, NoStr, NoStr, fits, FALSE)
    /\ out' = Forward("joined", "join", auto_join, NoStr,
                      ApiOutcome("join", auto_join, NoStr, NoStr, fits, FALSE))
    /\ UNCHANGED client_rooms
    /\ CallFrame

(***************************************************************************)
(* An inbound packet (client.py 739-892): decode() failing is written as   *)
(* an envelope that is not a map.                                          *)
(***************************************************************************)
\* client.py 739-861: the packet is dropped, or dispatched by its type
PacketOutcome(env, fits, handler) ==
    IF ~validate_envelope(env) THEN Outcome("dropped", <<>>, "")
    ELSE IF env.t = T_PING
    THEN [SendOutcome(make_envelope(T_PONG, NoStr, NoStr), fits, handler)
            EXCEPT !.result = "dispatched"]
    ELSE [Outcome("dispatched", <<>>, "") EXCEPT
            !.callbacks =
               IF env.t = T_JOINED /\ (env.room.none \/ RawLen(env.room) = 0)
               THEN <<>>
               ELSE <<env.t>>]

\* self.rooms after the packet
RoomsAfterPacket(env) ==
    IF validate_envelope(env) /\ env.t = T_JOINED /\ ~env.room.none
       /\ RawLen(env.room) > 0
    THEN client_rooms \cup {Lower(Strip(env.room)).base}
    ELSE IF validate_envelope(env) /\ env.t = T_PARTED /\ ~env.room.none
            /\ RawLen(env.room) > 0
    THEN client_rooms \ {Lower(Strip(env.room)).base}
    ELSE client_rooms

OnPacket(env, fits, handler) ==
    /\ call.op = "none"
    /\ call' = [NewCall("packet", env.room, NoStr, env.nick, fits, handler)
                  EXCEPT !.env = env]
    /\ out' = PacketOutcome(env, fits, handler)
    /\ client_rooms' = RoomsAfterPacket(env)
    /\ CallFrame

(***************************************************************************)
(* The clock of connect() (client.py 276-409), in whole seconds: mono is   *)
(* the time since connect() began, deadline holds timeout_s and the end of *)
(* the wait that connect() is in.  A wait ends when what it waits for      *)
(* happens or when its deadline is reached; time passes only while         *)
(* connect() waits.                                                        *)
(***************************************************************************)
Min(a, b) == IF a < b THEN a ELSE b

\* a wait that begins now and may last span seconds
WaitUntil(span, timeout_s) == mono + span

TimeFrame ==
    UNCHANGED <<welcomed, link_made, est_pc, hello_pc, hello_n, hub_hello,
                wel_inflight, wire, ncmd, bclient, resVars, beVars, rateVars,
                callVars, extVars>>

\* client.py 296-298: connect() begins and waits for a path
TimedConnect(timeout_s) ==
    /\ conn_pc = "idle"
    /\ conn_pc' = "path_wait"
    /\ mono' = 0
    /\ deadline' = [timeout_s |-> timeout_s,
                    until |-> Min(path_wait_s, timeout_s)]
    /\ TimeFrame

\* time.sleep() inside a wait
TimedSleep ==
    /\ conn_pc \in {"path_wait", "recall", "pause", "wait_welcome"}
    /\ mono < deadline.until
    /\ mono' = mono + 1
    /\ UNCHANGED <<conn_pc, deadline>>
    /\ TimeFrame

\* client.py 299-310: the path is there, or the path wait is over; the
\* recall of the identity begins
TimedPathWaitEnds ==
    /\ conn_pc = "path_wait"
    /\ conn_pc' = "recall"
    /\ deadline' = [deadline EXCEPT !.until = WaitUntil(deadline.timeout_s,
                                                      deadline.timeout_s)]
    /\ UNCHANGED mono
    /\ TimeFrame

\* client.py 314-319, 384-387: the identity is recalled; an older link to
\* the hub was found and torn down, and connect() sleeps cleanup_pause_s
TimedRecalledCleanup ==
    /\ conn_pc = "recall"
    /\ mono < deadline.until
    /\ conn_pc' = "pause"
    /\ deadline' = [deadline EXCEPT !.until = mono + cleanup_pause_s]
    /\ UNCHANGED mono
    /\ TimeFrame

\* client.py 314-319, 389-402: the identity is recalled and no older link
\* was found, or the pause is over; the link is made and the wait for
\* WELCOME begins
TimedWaitWelcome ==
    /\ \/ conn_pc = "recall" /\ mono < deadline.until
       \/ conn_pc = "pause" /\ mono = deadline.until
    /\ conn_pc' = "wait_welcome"
    /\ deadline' = [deadline EXCEPT !.until = WaitUntil(deadline.timeout_s,
                                                      deadline.timeout_s)]
    /\ UNCHANGED mono
    /\ TimeFrame

\* client.py 321-327: the recall deadline passed without an identity
TimedRecallTimeout ==
    /\ conn_pc = "recall"
    /\ mono >= deadline.until
    /\ conn_pc' = "failed"
    /\ UNCHANGED <<mono, deadline>>
    /\ TimeFrame

\* client.py 402, 409: WELCOME arrived
TimedWelcomed ==
    /\ conn_pc = "wait_welcome"
    /\ conn_pc' = "returned_ok"
    /\ UNCHANGED <<mono, deadline>>
    /\ TimeFrame

\* client.py 402-408: the wait for WELCOME ran out
TimedWelcomeTimeout ==
    /\ conn_pc = "wait_welcome"
    /\ mono >= deadline.until
    /\ conn_pc' = "timeout"
    /\ UNCHANGED <<mono, deadline>>
    /\ TimeFrame

\* the state of the client's state machine, read off the code's position
ClientState ==
    IF conn_pc \in {"path_wait", "recall", "make_link"} THEN "PATH_WAIT"
    ELSE IF \/ conn_pc \in {"idle", "failed", "timeout"}
            \/ close_pc # "idle"
            \/ lc_pc # "none"
         THEN "DISCONNECTED"
    ELSE IF est_pc = "none" THEN "LINK_PENDING"
    ELSE IF welcomed THEN "WELCOMED"
    ELSE "HELLO_LOOP"

(***************************************************************************)
(* SpecRes: the resource bookkeeping of a welcomed client.                 *)
(* The initial states are states the client reaches after its handshake,   *)
(* at time TickStep:                                                       *)
(*   "empty"   nothing pending;                                            *)
(*   "active"  max_active_resources - 1 transfers accepted at time 0, each *)
(*             after its RESOURCE_ENVELOPE, and two more envelopes (ids    *)
(*             20, 21; sizes 1, 2) pending;                                *)
(*   "pending" envelopes 1..7 received at time 0, then envelope 1 again    *)
(*             and envelope 8 at time TickStep: the table is full, and its *)
(*             first entry in dict order is not its oldest.                *)
(***************************************************************************)
OldActive == 1..(max_active_resources - 1)

FullTable ==
    [i \in 1..max_pending_resource_expectations |->
        NewExpectation(i, 1,
            IF i \in {1, max_pending_resource_expectations} THEN TickStep ELSE 0,
            i)]

InitResState(sc) ==
    /\ active_resources = (IF sc = "active" THEN OldActive ELSE {})
    /\ resource_to_expectation =
          (IF sc = "active"
           THEN [r \in OldActive |-> NewExpectation(r, 1, 0, r)]
           ELSE <<>>)
    /\ transfers = (IF sc = "active" THEN OldActive ELSE {})
    /\ matched = (IF sc = "active"
                  THEN {[res |-> r, n |-> r, size |-> 1] : r \in OldActive}
                  ELSE {})
    /\ adv_results =
          (IF sc = "active"
           THEN {[res |-> r, size |-> 1, seen |-> r - 1, outcome |-> "accepted"] :
                    r \in OldActive}
           ELSE {})
    /\ resource_expectations =
          (IF sc = "active"
           THEN <<NewExpectation(20, 1, 0, 20), NewExpectation(21, 2, 0, 21)>>
           ELSE IF sc = "pending" THEN FullTable
           ELSE <<>>)

InitThreads ==
    /\ wpc = [w \in Workers |-> "idle"]
    /\ wloc = [w \in Workers |-> IdleLoc]
    /\ close_pc = "idle"
    /\ close_loc = [link |-> NoLink, active |-> {}]
    /\ lc_pc = "none"
    /\ nev = 0
    /\ on_close_calls = 0

\* the handshake variables of a client whose connect() has returned
InitConnDone ==
    /\ bclient = TRUE
    /\ conn_pc = "returned_ok"
    /\ welcomed = TRUE
    /\ link_made = TRUE
    /\ est_pc = "done"
    /\ hello_pc = "exited"
    /\ hello_n = 1
    /\ hub_hello = 0
    /\ wel_inflight = 0
    /\ wire = {}
    /\ ncmd = 0

\* the variables of the other specifications, at rest
InitRateIdle ==
    /\ room_operation_times = <<>>
    /\ wall = 0
    /\ fwd = <<>>
    /\ reply = NoReply

InitCallIdle ==
    /\ call = NoCall
    /\ out = NoOut

InitTimeIdle ==
    /\ mono = 0
    /\ deadline = [timeout_s |-> 0, until |-> 0]

\* no get_discovered_hubs has been answered
NoHubReply == [type |-> "none", hubs |-> <<>>, before |-> <<>>, at |-> 0]

InitHubsIdle ==
    /\ discovered_hubs = <<>>
    /\ hub_cache = <<>>
    /\ hub_saves = 0
    /\ hub_reply = NoHubReply

\* the event loop is outside get_discovered_hubs
GcIdle == [pc |-> "idle", at |-> 0, size |-> 0, seen |-> {}, stale |-> {}]

\* no announce is being handled
AnnIdle == [pc |-> "idle", h |-> "", size |-> 0, n |-> 0]

InitRaceIdle ==
    /\ gc = GcIdle
    /\ ann = AnnIdle
    /\ b_lock = ""
    /\ hub_writes = {}

\* no thread is inside _send
SndIdle == [pc |-> "idle", link |-> NoLink, n |-> 0]

\* the link-closed callback has not run
LcIdle == [active |-> {}, held |-> FALSE]

InitLockIdle ==
    /\ c_lock = ""
    /\ snd = SndIdle
    /\ tcalls = {}
    /\ lc_loc = LcIdle

\* no UI command has been answered
NoSessReply == [cmd |-> "none", type |-> "none"]

InitSessIdle ==
    /\ clients = <<>>
    /\ cur = 0
    /\ connecting = 0
    /\ sreply = NoSessReply
    /\ carried = {}

\* no hello thread has been started
HlIdle == [pc |-> "idle", link |-> NoLink, until |-> 0, next_send |-> 0,
           attempts |-> 0, seen |-> "none"]

InitHelloIdle ==
    /\ hl = HlIdle
    /\ hello_log = <<>>

\* no advertisement is being handled
FeIdle == [pc |-> "idle", size |-> 0, sampled |-> 0]

InitExpIdle ==
    /\ fe = FeIdle
    /\ match_log = {}

\* nothing has touched the rooms
NoRop == [op |-> "none", room |-> "", result |-> ""]

\* no callback has been called
NoCbk == [cb |-> "", room |-> "", raised |-> FALSE, before |-> FALSE,
          escaped |-> FALSE]

\* no announce has been received
NoAnx == [names |-> <<>>, h |-> "", app |-> <<>>, out |-> "none", at |-> 0]

InitMoreIdle ==
    /\ InitHelloIdle
    /\ InitExpIdle
    /\ rop = NoRop
    /\ cbk = NoCbk
    /\ anx = NoAnx

InitExtIdle ==
    /\ concluded = <<>>
    /\ InitHubsIdle
    /\ InitRaceIdle
    /\ InitLockIdle
    /\ InitSessIdle
    /\ InitMoreIdle

InitAux ==
    /\ InitRateIdle
    /\ InitCallIdle
    /\ InitTimeIdle
    /\ InitExtIdle

\* the backend after _on_welcome has run, in one of three states:
\*   "fresh"    only the hub room;
\*   "rooms"    MAX_ROOMS - 1 rooms, none of them named by a packet of the run;
\*   "messages" room "general" one record short of MAX_MESSAGES_PER_ROOM.
InitBackendState(sc) ==
    /\ rooms =
          [r \in {HubRoom} \cup (IF sc = "rooms" THEN FillerRooms ELSE {})
                           \cup (IF sc = "messages" THEN {"general"} ELSE {}) |->
             IF r = HubRoom THEN [old |-> 1, new |-> <<>>]
             ELSE IF r = "general"
                  THEN [old |-> MAX_MESSAGES_PER_ROOM - 1, new |-> <<>>]
                  ELSE EmptyMessages]
    /\ members =
          [r \in {HubRoom} \cup (IF sc = "rooms" THEN FillerRooms ELSE {})
                           \cup (IF sc = "messages" THEN {"general"} ELSE {}) |->
             IF r = "general" THEN Range(SnapshotUsers) \cup {Sender} ELSE {}]
    /\ nicknames = ""
    /\ hub_name = "Demo Hub"
    /\ ping_task = TRUE
    /\ tasks = <<>>
    /\ ui = <<>>

InitRes ==
    /\ InitConnDone
    /\ InitBackendState("fresh")
    /\ link = 1
    /\ linkUp = TRUE
    /\ client_rooms = {}
    /\ now = TickStep
    /\ \E sc \in {"empty", "active", "pending"} : InitResState(sc)
    /\ InitThreads
    /\ InitAux

NextRes ==
    \/ \E w \in Workers, p \in ResPackets : PktBegin(w, p)
    \/ \E w \in Workers : PktDispatch(w)
    \/ \E w \in Workers, size \in AdvSizes : AdvBegin(w, size)
    \/ \E w \in Workers : AdvCleanup(w)
    \/ \E w \in Workers : AdvFind(w)
    \/ \E w \in Workers : AdvAdd(w)
    \/ \E r \in transfers : Concluded(r)
    \/ Tick

SpecRes == InitRes /\ [][NextRes]_vars

(***************************************************************************)
(* SpecClose: close() and the link-closed callback, concurrent with the    *)
(* transport workers.                                                      *)
(***************************************************************************)
InitClose ==
    /\ InitConnDone
    /\ InitBackendState("fresh")
    /\ link = 1
    /\ linkUp = TRUE
    /\ client_rooms = {}
    /\ now = TickStep
    /\ InitResState("empty")
    /\ InitThreads
    /\ InitAux

NextClose ==
    \/ \E w \in Workers, p \in ResPackets \cup RoomPackets : PktBegin(w, p)
    \/ \E w \in Workers : PktDispatch(w)
    \/ \E w \in Workers, size \in AdvSizes : AdvBegin(w, size)
    \/ \E w \in Workers : AdvCleanup(w)
    \/ \E w \in Workers : AdvFind(w)
    \/ \E w \in Workers : AdvAdd(w)
    \/ \E r \in transfers : Concluded(r)
    \/ CloseClear
    \/ CloseCancel
    \/ CloseTeardown
    \/ CloseReturn
    \/ LinkDown
    \/ LinkClosedClear
    \/ LinkClosedOnClose

SpecClose == InitClose /\ [][NextClose]_vars

(***************************************************************************)
(* SpecBackend: the backend's event handlers as coroutines on the event    *)
(* loop, fed by the callbacks of a welcomed client.                        *)
(***************************************************************************)
InitBackend ==
    /\ InitConnDone
    /\ \E sc \in {"fresh", "rooms", "messages"} : InitBackendState(sc)
    /\ link = 1
    /\ linkUp = TRUE
    /\ client_rooms = {}
    /\ now = TickStep
    /\ InitResState("empty")
    /\ InitThreads
    /\ InitAux

NextBackend ==
    \/ \E e \in BackendEvents : Post(e)
    \/ \E i \in 1..Len(tasks) : OnMessage(i)
    \/ \E i \in 1..Len(tasks) : OnNotice(i)
    \/ \E i \in 1..Len(tasks) : OnJoined(i)
    \/ \E i \in 1..Len(tasks) : OnParted(i)
    \/ \E i \in 1..Len(tasks) : OnWelcome(i)
    \/ \E i \in 1..Len(tasks) : Resume(i)

SpecBackend == InitBackend /\ [][NextBackend]_vars

(***************************************************************************)
(* SpecConn: one client from its creation: connect(), the handshake with   *)
(* the hub, UI commands, the ping loop, disconnect and the link closing.   *)
(* Time is not measured: a timeout may fire whenever its wait is pending.  *)
(***************************************************************************)
InitConn ==
    /\ bclient = FALSE
    /\ conn_pc = "idle"
    /\ welcomed = FALSE
    /\ link_made = FALSE
    /\ est_pc = "none"
    /\ hello_pc = "none"
    /\ hello_n = 0
    /\ hub_hello = 0
    /\ wel_inflight = 0
    /\ wire = {}
    /\ ncmd = 0
    /\ rooms = [r \in {HubRoom} |-> EmptyMessages]
    /\ members = [r \in {HubRoom} |-> {}]
    /\ nicknames = ""
    /\ hub_name = ""
    /\ ping_task = FALSE
    /\ tasks = <<>>
    /\ ui = <<>>
    /\ InitAux
    /\ link = NoLink
    /\ linkUp = FALSE
    /\ client_rooms = {}
    /\ now = TickStep
    /\ InitResState("empty")
    /\ InitThreads

NextConn ==
    \/ HandleConnect
    \/ ConnPathWait
    \/ ConnRecall
    \/ ConnRecallFail
    \/ ConnMakeLink
    \/ ConnStoreLink
    \/ ConnWelcomed
    \/ ConnTimeout
    \/ Established
    \/ EstablishedIdentifyFails
    \/ HelloExit
    \/ HelloSend
    \/ HelloResend
    \/ HelloDeadline
    \/ HubWelcome
    \/ PktWelcome
    \/ \E c \in UiCommands : UiCommand(c)
    \/ PingLoopRound
    \/ HandleDisconnect
    \/ CloseCancel
    \/ CloseTeardown
    \/ CloseReturn
    \/ DisconnectDone
    \/ LinkDown
    \/ LinkClosedClear
    \/ LinkClosedOnClose
    \/ \E i \in 1..Len(tasks) : OnWelcome(i)
    \/ \E i \in 1..Len(tasks) : OnClose(i)
    \/ \E i \in 1..Len(tasks) : Resume(i)

SpecConn == InitConn /\ [][NextConn]_vars

(***************************************************************************)
(* SpecHappy: the handshake when the path and the identity resolve, the    *)
(* link is established and stays up, and the hub answers every HELLO       *)
(* before a deadline: a deadline passes only when no HELLO is waiting for  *)
(* its answer, no WELCOME is on its way and the hello thread will send     *)
(* nothing more.  Every thread, the hub and the event loop keep running.   *)
(***************************************************************************)
NoReplyComing ==
    /\ est_pc = "done"
    /\ hello_pc = "exited"
    /\ hub_hello = 0
    /\ wel_inflight = 0

HappyConnTimeout ==
    /\ NoReplyComing
    /\ ConnTimeout

NextHappy ==
    \/ HandleConnect
    \/ ConnPathWait
    \/ ConnRecall
    \/ ConnMakeLink
    \/ ConnStoreLink
    \/ ConnWelcomed
    \/ HappyConnTimeout
    \/ Established
    \/ HelloExit
    \/ HelloSend
    \/ HubWelcome
    \/ PktWelcome
    \/ \E c \in UiCommands : UiCommand(c)
    \/ \E i \in 1..Len(tasks) : OnWelcome(i)
    \/ \E i \in 1..Len(tasks) : Resume(i)

SpecHappy == InitConn /\ [][NextHappy]_vars /\ WF_vars(NextHappy)

(***************************************************************************)
(* SpecRate: the join and part operations of the UI under the rate limit,  *)
(* on a welcomed client.  Initially no operation was made, or nine or ten  *)
(* joins of "general" were forwarded at time 0.                            *)
(***************************************************************************)
InitWelcomed ==
    /\ InitConnDone
    /\ InitBackendState("fresh")
    /\ link = 1
    /\ linkUp = TRUE
    /\ client_rooms = {}
    /\ now = TickStep
    /\ InitResState("empty")
    /\ InitThreads

InitRate ==
    /\ InitWelcomed
    /\ \E n \in {0, room_op_rate_limit - 1, room_op_rate_limit} :
          /\ room_operation_times =
                (IF n = 0 THEN <<>>
                 ELSE [k \in {"join:general"} |-> [i \in 1..n |-> 0]])
          /\ fwd = [i \in 1..n |-> [key |-> "join:general", at |-> 0]]
    /\ wall = 0
    /\ reply = NoReply
    /\ InitCallIdle
    /\ InitTimeIdle
    /\ InitExtIdle

NextRate ==
    \/ \E r \in RoomInputs : HandleJoinRoom(r)
    \/ \E r \in RoomInputs : HandlePartRoom(r)
    \/ \E c \in {"join", "part"}, r \in RoomInputs : HandleSlashCommand(c, r)
    \/ WallTick

SpecRate == InitRate /\ [][NextRate]_vars

(***************************************************************************)
(* SpecCall: one call at a time of the outbound API, of send_message, of   *)
(* the auto-join, of _send_hello or of the packet callback, on a client    *)
(* with or without a link.  A client without a link may still hold a room: *)
(* a JOINED packet that is being handled while the link closes adds it     *)
(* after the rooms were cleared.                                           *)
(***************************************************************************)
ApiOps == {"join", "part", "msg", "notice", "ping"}

CallRooms == RoomInputs \cup {Str("edge", FALSE, 0, MaxRoomLen)}

CallTexts ==
    {Str("hello", FALSE, 0, 5), Str("hello", FALSE, 2, 5), Str("", FALSE, 1, 0),
     [Str("bell", FALSE, 0, 4) EXCEPT !.ctl = TRUE],
     [Str("/ping", FALSE, 0, 5) EXCEPT !.cmd = "/ping"],
     [Str("/me waves", FALSE, 0, 9) EXCEPT !.cmd = "/me"],
     Str("page", FALSE, 0, max_length), Str("page", FALSE, 0, max_length + 1),
     Str("book", FALSE, 0, MaxTextLen - 1), Str("book", FALSE, 0, MaxTextLen),
     Str("book", FALSE, 2, MaxTextLen - 1), Str("book", FALSE, 0, MaxTextLen + 1)}

CallNicks == {NoStr, Str("bob", FALSE, 0, 3), Str("bob", FALSE, 0, MaxNickLen)}

\* inbound envelopes: sound ones of four types, and one for each defect
PacketEnvs ==
    LET ok == [NoEnv EXCEPT !.t = T_JOINED, !.room = Str("general", FALSE, 0, 7),
                            !.nick = Str("bob", FALSE, 0, 3)]
    IN {[ok EXCEPT !.t = t] : t \in {T_PING, T_PONG, T_JOINED, T_MSG}}
       \cup {[ok EXCEPT !.map = FALSE], [ok EXCEPT !.missing = TRUE],
             [ok EXCEPT !.v = 0], [ok EXCEPT !.v = 2],
             [ok EXCEPT !.t = T_PING, !.v = 2],
             [ok EXCEPT !.mid = MidLen - 1], [ok EXCEPT !.src = SrcLen + 4],
             [ok EXCEPT !.src = 2 * SrcLen],
             [ok EXCEPT !.room = Str("", FALSE, 0, 0)],
             [ok EXCEPT !.room = Str("long", FALSE, 0, MaxEnvRoomLen + 1)],
             [ok EXCEPT !.nick = Str("", FALSE, 0, 0)],
             [ok EXCEPT !.nick = Str("long", FALSE, 0, MaxEnvNickLen + 1)]}

\* the call has returned
CallReturn ==
    /\ call.op # "none"
    /\ call' = NoCall
    /\ out' = NoOut
    /\ UNCHANGED <<resVars, connVars, beVars, rateVars, timeVars, extVars>>

InitCall ==
    /\ InitConnDone
    /\ InitBackendState("fresh")
    /\ link \in {NoLink, 1}
    /\ linkUp = (link # NoLink)
    /\ client_rooms \in {{}, {"general"}}
    /\ now = TickStep
    /\ InitResState("empty")
    /\ InitThreads
    /\ InitAux

NextCall ==
    \/ \E op \in ApiOps, r \in CallRooms, t \in CallTexts, n \in CallNicks,
          fits \in BOOLEAN, handler \in BOOLEAN :
          ApiCall(op, r, t, n, fits, handler)
    \/ \E n \in CallNicks, fits \in BOOLEAN : SendHello(n, fits)
    \/ \E r \in CallRooms, t \in CallTexts, n \in CallNicks, fits \in BOOLEAN :
          HandleSendMessage(r, t, n, fits)
    \/ \E r \in CallRooms, fits \in BOOLEAN : AutoJoin(r, fits)
    \/ \E e \in PacketEnvs, fits \in BOOLEAN, handler \in BOOLEAN :
          OnPacket(e, fits, handler)
    \/ CallReturn

SpecCall == InitCall /\ [][NextCall]_vars

(***************************************************************************)
(* SpecTime: one call of connect() against the clock, with the default     *)
(* timeout and with a short one.                                           *)
(***************************************************************************)
Timeouts == {short_timeout_s, default_timeout_s}

NextTime ==
    \/ \E t \in Timeouts : TimedConnect(t)
    \/ TimedSleep
    \/ TimedPathWaitEnds
    \/ TimedRecalledCleanup
    \/ TimedWaitWelcome
    \/ TimedRecallTimeout
    \/ TimedWelcomed
    \/ TimedWelcomeTimeout

SpecTime == InitConn /\ [][NextTime]_vars

(***************************************************************************)
(* The claims.                                                             *)
(***************************************************************************)

\* the advertisements of the run (those of the initial state left out)
NewResults == {a \in adv_results : a.res > max_active_resources}

\* C2: after Client.close() has returned, the expectation table, the active
\* set, the resource-to-expectation map and the local rooms set are empty
\* and the link reference is nil, whatever the transport workers were doing.
C2_ClosedStateEmpty ==
    close_pc = "returned" =>
        /\ resource_expectations = <<>>
        /\ active_resources = {}
        /\ DOMAIN resource_to_expectation = {}
        /\ client_rooms = {}
        /\ link = NoLink

\* C3: the active set never holds more than max_active_resources transfers,
\* and an advertisement that arrives while that many are active is rejected.
C3_ActiveCap ==
    /\ Cardinality(active_resources) <= max_active_resources
    /\ \A a \in adv_results :
          a.seen >= max_active_resources => a.outcome # "accepted"

\* C7: every accepted advertisement consumed exactly one pending expectation,
\* of the transfer's size; no expectation is matched to two transfers; a
\* rejected advertisement (too big, active set full, no matching size)
\* consumed none.
C7_OneExpectationPerAccept ==
    /\ \A a \in adv_results :
          LET ms == {m \in matched : m.res = a.res} IN
          IF a.outcome = "accepted"
          THEN Cardinality(ms) = 1 /\ \A m \in ms : m.size = a.size
          ELSE ms = {}
    /\ \A m1, m2 \in matched : m1.n = m2.n => m1.res = m2.res
    /\ \A m \in matched :
          \A i \in 1..Len(resource_expectations) :
              resource_expectations[i].n # m.n

\* C7 witness: a transfer was accepted against an expectation, and other
\* advertisements were rejected because the active set was full and because
\* no expectation had their size.
C7_Witness ==
    /\ \E a \in NewResults : a.outcome = "accepted"
    /\ \E a \in NewResults : a.outcome = "full"

C7_WitnessNoMatch ==
    /\ \E a \in NewResults : a.outcome = "accepted"
    /\ \E a \in NewResults : a.outcome = "no_match"

\* C10: the expectation table never holds more than
\* max_pending_resource_expectations entries; a valid RESOURCE_ENVELOPE that
\* is recorded while the table is full evicts an entry whose created_at is
\* the smallest, keeps the others and records the new expectation.
C10_PendingCap ==
    /\ [](Len(resource_expectations) <= max_pending_resource_expectations)
    /\ [][\A w \in Workers :
            ( /\ wpc[w] = "pkt" /\ wpc'[w] = "idle"
              /\ wloc[w].t = T_RESOURCE_ENVELOPE
              /\ ValidResourceEnvelope(wloc[w].size)
              /\ Len(resource_expectations) = max_pending_resource_expectations )
            => \E i \in 1..Len(resource_expectations) :
                 /\ \A j \in 1..Len(resource_expectations) :
                       resource_expectations[i].created_at
                          <= resource_expectations[j].created_at
                 /\ \A k \in 1..Len(resource_expectations') :
                       resource_expectations'[k].n # resource_expectations[i].n
                 /\ \A j \in 1..Len(resource_expectations) :
                       (j # i /\ resource_expectations[j].id # wloc[w].rid)
                          => resource_expectations[j] \in Range(resource_expectations')
                 /\ \E k \in 1..Len(resource_expectations') :
                       resource_expectations'[k] =
                          NewExpectation(wloc[w].rid, wloc[w].size, now, wloc[w].n)
         ]_vars

\* C10 witness: envelope 9 was recorded in the full table of the "pending"
\* initial state; entry 2, the oldest, is gone and entry 1, the first in dict
\* order, is still there.
C10_Witness ==
    /\ Len(resource_expectations) = max_pending_resource_expectations
    /\ \E i \in 1..Len(resource_expectations) : resource_expectations[i].id = 9
    /\ \A i \in 1..Len(resource_expectations) : resource_expectations[i].id # 2
    /\ resource_expectations[1].id = 1


\* every posted handler has run to its end
AllHandlersDone == \A i \in 1..Len(tasks) : tasks[i].pc = "done"

\* C6: the broadcasts made for one inbound packet reach the UI as one
\* contiguous sequence: between two broadcasts of a packet there is no
\* broadcast of another packet.
C6_BroadcastsContiguous ==
    \A i, k \in 1..Len(ui) :
        (i < k /\ ui[i].pkt = ui[k].pkt) =>
            \A j \in i..k : ui[j].pkt = ui[i].pkt

\* C8: once the event handlers have completed, every room of the room table
\* holds at most MAX_MESSAGES_PER_ROOM message records.
C8_MessagesCap ==
    AllHandlersDone =>
        \A r \in DOMAIN rooms : MsgLen(rooms[r]) <= MAX_MESSAGES_PER_ROOM

\* C9: the room table never holds more than MAX_ROOMS rooms; the handler of
\* a MSG for a room that is not in the table, started while the table holds
\* MAX_ROOMS rooms, ends at once: the room table (rooms and records) and the
\* broadcasts are as they were.
C9_RoomsCap ==
    /\ [](Cardinality(DOMAIN rooms) <= MAX_ROOMS)
    /\ [][\A i \in 1..Len(tasks) :
            (/\ tasks[i].pc = "posted"
             /\ tasks'[i].pc # "posted"
             /\ tasks[i].e.h = "message"
             /\ tasks[i].e.room \notin DOMAIN rooms
             /\ Cardinality(DOMAIN rooms) = MAX_ROOMS)
            => (rooms' = rooms /\ ui' = ui /\ tasks'[i].pc = "done")]_vars

C9_Witness ==
    /\ Cardinality(DOMAIN rooms) = MAX_ROOMS
    /\ "other" \notin DOMAIN rooms
    /\ \E i \in 1..Len(tasks) :
          /\ tasks[i].e.h = "message"
          /\ tasks[i].e.room = "other"
          /\ tasks[i].pc = "done"
          /\ \A j \in 1..Len(ui) : ui[j].pkt # i

\* the envelope types a user's commands and the ping loop send
UserTypes == {T_JOIN, T_PART, T_MSG, T_NOTICE, T_PING}

\* C1: a JOIN, PART, MSG, NOTICE or PING envelope is handed to the transport
\* only while the client is welcomed.
C1_SendOnlyWelcomed == \A e \in wire : e.t \in UserTypes => e.welcomed

\* C4: the link reference is nil exactly when the client is DISCONNECTED.
C4_LinkNilIffDisconnected ==
    /\ ClientState = "DISCONNECTED" => link = NoLink
    /\ link = NoLink => ClientState = "DISCONNECTED"

\* C5: once connect() has begun, with a hub that answers in time, connect()
\* eventually returns success and the UI has received the notice
\* 'Connected to hub: <name>' for room '[Hub]' and a hub_info event.
C5_HappyHandshake ==
    (conn_pc = "path_wait") ~>
        (/\ conn_pc = "returned_ok"
         /\ \E j \in 1..Len(ui) :
               /\ ui[j].type = "notice"
               /\ ui[j].room = HubRoom
               /\ ui[j].text = "Connected to hub: Demo Hub"
         /\ \E j \in 1..Len(ui) :
               ui[j].type = "hub_info" /\ ui[j].text = "Demo Hub")
\* the operations with this key that were forwarded less than
\* room_op_rate_window seconds before the time t
Forwarded(key, t) ==
    {j \in 1..Len(fwd) :
        fwd[j].key = key /\ fwd[j].at <= t /\ t - fwd[j].at < room_op_rate_window}

C11_Window ==
    \A i \in 1..Len(fwd) :
        Cardinality(Forwarded(fwd[i].key, fwd[i].at)) <= room_op_rate_limit

C11_Step ==
    /\ ncmd' # ncmd /\ reply'.key # "" =>
          IF Cardinality(Forwarded(reply'.key, wall)) >= room_op_rate_limit
          THEN reply'.type = "too_many_requests" /\ fwd' = fwd /\ wire' = wire
          ELSE /\ reply'.type \in {"join_requested", "part_requested"}
               /\ fwd' = Append(fwd, [key |-> reply'.key, at |-> wall])
    /\ \A k \in DOMAIN room_operation_times :
          k # reply'.key => room_operation_times'[k] = room_operation_times[k]

\* C11: for each key join:<room> or part:<room>, with the room normalized,
\* at most room_op_rate_limit operations are forwarded to the client within
\* any room_op_rate_window seconds (an operation t seconds old counts while
\* t < room_op_rate_window), whether they come from join_room, part_room,
\* /join or /part; an operation beyond that is answered with the rate-limit
\* error and makes no call on the client; an operation leaves the lists of
\* the other keys as they were, and is forwarded whenever its own key has
\* room
C11_RateLimit == [](C11_Window) /\ [][C11_Step]_vars

\* a join of "general" was refused after ten were forwarded, and a join of
\* another room had gone through
C11_Witness ==
    /\ reply = Reply("too_many_requests", "join:general")
    /\ Cardinality(Forwarded("join:general", wall)) = room_op_rate_limit
    /\ \E j \in 1..Len(fwd) : fwd[j].key = "join:other"

\* C12: a send_message whose room is valid and whose text, once stripped, is
\* non-empty, at most MaxTextLen characters long, free of forbidden control
\* characters and not a command, makes the call Client.msg(normalized room,
\* stripped text)
C12_ValidTextForwarded ==
    (/\ call.op = "send_message"
     /\ bclient
     /\ RawLen(call.room) <= MaxRoomLen /\ Strip(call.room).len > 0
     /\ Strip(call.text).len > 0 /\ Strip(call.text).len <= MaxTextLen
     /\ ~call.text.ctl /\ call.text.cmd = "")
    => out.api = <<[op |-> "msg", room |-> normalize_room_name(call.room),
                    text |-> Strip(call.text)]>>

\* the call reached the packing of its payload, and the transport could not
\* pack it
PackFailed(ops) ==
    /\ call.op \in ops
    /\ ~call.fits
    /\ out.result \notin {"RuntimeError", "ValueError"}

MessageTooLargeTexts ==
    {"Message is too large to send. Please shorten your message.",
     "Message is too large to send over this link."}

C13_State ==
    /\ PackFailed(ApiOps) =>
          /\ out.result = "MessageTooLargeError"
          /\ out.sent = <<>>
          /\ out.warning =
                (IF ~call.handler THEN ""
                 ELSE IF call.op = "notice"
                 THEN "Notice is too large to send. Please shorten the notice."
                 ELSE IF call.op = "msg"
                 THEN "Message is too large to send. Please shorten your message."
                 ELSE "Message is too large to send over this link.")
    /\ call.op \in ApiOps /\ out.sent # <<>> => call.fits

C13_Step ==
    call'.op \in ApiOps /\ out'.result = "MessageTooLargeError" =>
        UNCHANGED <<client_rooms, resource_expectations, active_resources,
                    resource_to_expectation, link>>

ValidArgs ==
    /\ call.op # "ping" => ~call.room.none /\ Strip(call.room).len > 0
    /\ call.op \in {"msg", "notice"} => ~call.text.none /\ Strip(call.text).len > 0

\* C14 as stated: on a client without a link every call of join, part, msg,
\* notice and ping fails with the not-connected error and transmits nothing
C14_Original ==
    call.op \in ApiOps /\ link = NoLink =>
        out.result = "RuntimeError" /\ out.sent = <<>>

C14_State ==
    call.op \in ApiOps /\ link = NoLink =>
        /\ out.result = (IF ValidArgs THEN "RuntimeError" ELSE "ValueError")
        /\ out.sent = <<>>
        /\ out.warning = ""

C14_Step ==
    call'.op \in ApiOps /\ link = NoLink => UNCHANGED <<client_rooms, link>>

\* C14, amended: on a client without a link, join, part, msg, notice and
\* ping fail with the not-connected error when their arguments are valid,
\* and with ValueError when the room or the text is empty once stripped; in
\* both cases nothing is transmitted and the rooms set stays as it was
C14_NotConnected == [](C14_State) /\ [][C14_Step]_vars

\* part("general") on a client without a link that still holds the room
C14_Witness ==
    /\ call.op = "part"
    /\ link = NoLink
    /\ call.room.base = "general"
    /\ out.result = "RuntimeError"
    /\ "general" \in client_rooms

\* what C17 lists as failing validation: not a map, a required key missing,
\* a version other than 1, an id that is not 8 bytes, a source that is not
\* 16 or 32 bytes, a room or a nick that is empty or too long
Defective(env) ==
    \/ ~env.map
    \/ env.missing
    \/ env.v # 1
    \/ env.mid # 8
    \/ env.src \notin {16, 32}
    \/ ~env.room.none /\ (RawLen(env.room) < 1 \/ RawLen(env.room) > 64)
    \/ ~env.nick.none /\ (RawLen(env.nick) < 1 \/ RawLen(env.nick) > 32)

C17_State ==
    call.op = "packet" =>
        /\ Defective(call.env) =>
              /\ out.result = "dropped"
              /\ out.callbacks = <<>>
              /\ out.sent = <<>>
        /\ out.result = "dispatched" => call.env.v = 1

C17_Step ==
    call'.op = "packet" /\ Defective(call'.env) =>
        UNCHANGED <<resVars, connVars, beVars>>

\* C17: an inbound packet that cannot be decoded or whose envelope fails
\* validation is dropped: the client's state is left as it was, no callback
\* is fired and nothing is sent in reply; every envelope that is dispatched
\* has version 1
C17_InvalidDropped == [](C17_State) /\ [][C17_Step]_vars

\* a PING of version 2 arrived on a linked client and was dropped
C17_Witness ==
    /\ call.op = "packet"
    /\ call.env.v = 2
    /\ call.env.t = T_PING
    /\ link # NoLink
    /\ call.fits
    /\ out.result = "dropped"

\* C18: every envelope handed to the link, by the outbound API called
\* directly, by send_message, by the auto-join, by _send_hello or as the
\* PONG that answers a PING, passes validate_envelope
C18_OutboundValid ==
    \A i \in 1..Len(out.sent) : validate_envelope(out.sent[i])

\* C15: from its start to its return or failure connect() takes at most
\* timeout_s seconds: the path wait, the identity recall, the cleanup pause
\* and the wait for WELCOME together stay within it
C15_WithinTimeout ==
    conn_pc # "idle" => mono <= deadline.timeout_s

\* C16: in one connect cycle the effects of the welcome happen once, however
\* many WELCOME packets the hub sends: on_welcome is dispatched once, and
\* one "Connected to hub" notice and one hub_info reach the UI
C16_WelcomeOnce ==
    /\ Cardinality({i \in 1..Len(tasks) : tasks[i].e.h = "welcome"}) <= 1
    /\ Cardinality({i \in 1..Len(ui) :
                       ui[i].type = "notice" /\ ui[i].room = HubRoom}) <= 1
    /\ Cardinality({i \in 1..Len(ui) : ui[i].type = "hub_info"}) <= 1

\* the step in which the coroutine i, posted for a JOINED event, runs from
\* its start to its first await
JoinedRuns(i) ==
    /\ i \in 1..Len(tasks)
    /\ tasks[i].e.h = "joined"
    /\ tasks[i].pc = "posted"
    /\ tasks'[i].pc # "posted"

C19_Step ==
    \A i \in 1..Len(tasks) :
        LET e == tasks[i].e
            message == Bc(i, "system", e.room, "Joined room")
        IN (/\ JoinedRuns(i)
            /\ Len(e.users) # 1
            /\ ~(e.room \notin DOMAIN rooms /\ Cardinality(DOMAIN rooms) >= MAX_ROOMS))
           => /\ e.room \in DOMAIN rooms'
              /\ members'[e.room] = {e.users[k] : k \in 1..Len(e.users)}
              /\ MsgLen(rooms'[e.room]) =
                    (IF e.room \in DOMAIN rooms THEN MsgLen(rooms[e.room]) ELSE 0) + 1
              /\ ui' = Append(ui, message)
              /\ tasks'[i].todo =
                    <<BcUsers(i, "room_joined", e.room,
                              [k \in 1..Len(e.users) |-> FormatUser(e.users[k])])>>

\* C19: when the handler of a JOINED event with a user list of length other
\* than 1 runs and the room cap is not hit, the room is in the room table
\* afterwards, its member set is exactly the set of the digests of the
\* list, a "Joined room" system event is appended and broadcast, and
\* room_joined is to be broadcast next with the formatted list
C19_SelfJoin == [][C19_Step]_vars

C20_Step ==
    \A i \in 1..Len(tasks) :
        LET e == tasks[i].e
            message == Bc(i, "join", e.room, FormatUser(e.users[1]))
        IN JoinedRuns(i) /\ Len(e.users) = 1 =>
              IF e.room \notin DOMAIN rooms
              THEN /\ UNCHANGED <<rooms, members, nicknames, ui>>
                   /\ tasks'[i].pc = "done" /\ tasks'[i].todo = <<>>
              ELSE /\ members' = [members EXCEPT ![e.room] = @ \cup {e.users[1]}]
                   /\ rooms' = [rooms EXCEPT ![e.room] = MsgAppend(@, message)]
                   /\ ui' = Append(ui, message)
                   /\ Len(tasks'[i].todo) = 1
                   /\ tasks'[i].todo[1].type = "user_list_update"
                   /\ tasks'[i].todo[1].room = e.room

\* the broadcasts of the coroutine i, in the order they were written
BroadcastsOf(i) == SelectSeq(ui, LAMBDA b : b.pkt = i)

C20_State ==
    \A i \in 1..Len(tasks) :
        tasks[i].e.h = "joined" /\ Len(tasks[i].e.users) = 1 /\ tasks[i].pc = "done"
        => \/ BroadcastsOf(i) = <<>>
           \/ /\ Len(BroadcastsOf(i)) = 2
              /\ BroadcastsOf(i)[1].type = "join"
              /\ BroadcastsOf(i)[2].type = "user_list_update"
              /\ BroadcastsOf(i)[2].room = tasks[i].e.room

RES_KIND_NOTICE == "notice"
RES_KIND_MOTD == "motd"
RES_KIND_BLOB == "blob"

\* an optional bytes value: None, or a bytes object ("" is b"")
NoBytes == [none |-> TRUE, val |-> ""]

SomeBytes(v) == [none |-> FALSE, val |-> v]

\* the truth value Python gives an optional bytes value
Truthy(b) == ~b.none /\ b.val # ""

\* the payloads a transfer may carry, and "bad", which is not valid text
Payloads == {"b1", "bad"}

\* hashlib.sha256(data).digest(): 32 bytes, never b""
Sha256(data) == IF data = "b1" THEN "digest-1" ELSE "digest-x"

\* data.decode(encoding) raises UnicodeDecodeError for "bad"
Decodable(data) == data # "bad"

\* data.decode(encoding)
Decode(data) == IF data = "b1" THEN "hello" ELSE ""

\* the resource object the transport hands over: a failed transfer, one whose
\* data cannot be read, or a complete one with its payload
Resources ==
    {[status |-> "failed", readable |-> FALSE, data |-> "b1"],
     [status |-> "complete", readable |-> FALSE, data |-> "b1"]}
    \cup {[status |-> "complete", readable |-> TRUE, data |-> d] : d \in Payloads}

\* client.py 811: sha256 = bytes(sha256) if sha256 else None
StoredSha(sha256) == IF Truthy(sha256) THEN sha256 ELSE NoBytes

\* the _ResourceExpectation recorded for a RESOURCE_ENVELOPE (client.py
\* 807-816) whose body carries sha256 (None, b"" or 32 bytes) and whose room
\* is room ("" for None)
NoticeExpectation(kind, sha256, room) ==
    [id |-> 1, size |-> 1, created_at |-> 0,
     expires_at |-> resource_expectation_ttl_s, n |-> 1,
     kind |-> kind, sha256 |-> StoredSha(sha256), room |-> room]

NoticeExpectations ==
    {NoticeExpectation(k, s, r) :
        k \in {RES_KIND_NOTICE, RES_KIND_MOTD, RES_KIND_BLOB},
        s \in {NoBytes, SomeBytes(""), SomeBytes("digest-1"),
               SomeBytes("digest-2")},
        r \in {"", "general"}}

\* no env was passed to on_notice
NoNotice == [t |-> 0, body |-> "", room |-> ""]

\* a faulty variant, for comparison: the digest is never compared
ShaAcceptedUnchecked(exp, data) == TRUE

\* client.py 663-667
ShaAccepted(exp, data) ==
    ~Truthy(exp.sha256) \/ Sha256(data) = exp.sha256.val

\* a faulty variant, for comparison: a payload of any kind is passed on
ConcludedEnvAnyKind(registered, exp, resource) ==
    IF ~registered THEN NoNotice
    ELSE IF resource.status # "complete" THEN NoNotice
    ELSE IF ~resource.readable THEN NoNotice
    ELSE IF ~ShaAccepted(exp, resource.data) THEN NoNotice
    ELSE IF ~Decodable(resource.data) THEN NoNotice
    ELSE [t |-> T_NOTICE, body |-> Decode(resource.data),
          room |-> IF exp.kind = RES_KIND_NOTICE THEN exp.room ELSE ""]

\* client.py 632-704: the env built for on_notice, NoNotice when the
\* callback returns before it builds one
ConcludedEnv(registered, exp, resource) ==
    IF ~registered THEN NoNotice
    ELSE IF resource.status # "complete" THEN NoNotice
    ELSE IF ~resource.readable THEN NoNotice
    ELSE IF ~ShaAccepted(exp, resource.data) THEN NoNotice
    ELSE IF exp.kind \notin {RES_KIND_NOTICE, RES_KIND_MOTD} THEN NoNotice
    ELSE IF ~Decodable(resource.data) THEN NoNotice
    ELSE [t |-> T_NOTICE, body |-> Decode(resource.data),
          room |-> IF exp.kind = RES_KIND_NOTICE THEN exp.room ELSE ""]

\* a resource the client never accepted
UnknownResource == 0

\* the transport concludes resource r; handler tells whether on_notice is
\* set, and a set on_notice posts BackendService._on_notice to the loop
ResourceConcluded(r, resource, handler) ==
    /\ r \in transfers \cup {UnknownResource}
    /\ \A k \in 1..Len(concluded) : concluded[k].res # r
    /\ LET registered == r \in DOMAIN resource_to_expectation
           exp == IF registered THEN resource_to_expectation[r] ELSE NoExp
           env == ConcludedEnv(registered, exp, resource)
           fired == handler /\ env # NoNotice
       IN
       /\ concluded' = Append(concluded,
              [res |-> r, registered |-> registered, exp |-> exp,
               resource |-> resource, handler |-> handler,
               notice |-> IF fired THEN env ELSE NoNotice,
               task |-> IF fired THEN Len(tasks) + 1 ELSE 0])
       /\ tasks' = IF fired
                   THEN Append(tasks, NewTask([NoEvent EXCEPT !.h = "notice",
                                   !.room = env.room, !.text = env.body]))
                   ELSE tasks
    /\ transfers' = transfers \ {r}
    /\ active_resources' = active_resources \ {r}
    /\ resource_to_expectation' =
          [x \in DOMAIN resource_to_expectation \ {r} |->
              resource_to_expectation[x]]
    /\ UNCHANGED <<link, client_rooms, resource_expectations, wpc, wloc,
                   close_pc, close_loc, lc_pc, linkUp, now, nev, matched,
                   adv_results, on_close_calls>>
    /\ UNCHANGED <<rooms, nicknames, hub_name, ping_task, ui, members>>
    /\ UNCHANGED <<connVars, rateVars, callVars, timeVars, hubVars, raceVars,
                   lockVars, sessVars, moreVars>>

(***************************************************************************)
(* SpecNotice: a welcomed client with one accepted transfer, whose         *)
(* expectation is any the hub can announce, and the backend behind it.     *)
(***************************************************************************)
InitNotice ==
    /\ InitConnDone
    /\ InitBackendState("fresh")
    /\ link = 1
    /\ linkUp = TRUE
    /\ client_rooms = {}
    /\ now = TickStep
    /\ InitThreads
    /\ InitAux
    /\ resource_expectations = <<>>
    /\ active_resources = {1}
    /\ transfers = {1}
    /\ \E e \in NoticeExpectations : resource_to_expectation = [r \in {1} |-> e]
    /\ matched = {[res |-> 1, n |-> 1, size |-> 1]}
    /\ adv_results = {[res |-> 1, size |-> 1, seen |-> 0, outcome |-> "accepted"]}

NextNotice ==
    \/ \E r \in {1, UnknownResource}, x \in Resources, h \in BOOLEAN :
          ResourceConcluded(r, x, h)
    \/ \E i \in 1..Len(tasks) : OnNotice(i)
    \/ \E i \in 1..Len(tasks) : Resume(i)

SpecNotice == InitNotice /\ [][NextNotice]_vars

(***************************************************************************)
(* C21: a concluded resource whose expectation supplied a sha256 that      *)
(* differs from the digest of the received payload is dropped (on_notice   *)
(* does not fire, no notice reaches the UI); when the digest matches or    *)
(* none was supplied and the kind is notice, on_notice fires once with the *)
(* decoded text and the expectation's room.  The payload is one that was   *)
(* received and can be decoded, and on_notice is set.                      *)
(***************************************************************************)
Received(c) ==
    /\ c.registered
    /\ c.resource.status = "complete"
    /\ c.resource.readable
    /\ c.handler

ShaMismatch(c) ==
    /\ ~c.exp.sha256.none
    /\ Sha256(c.resource.data) # c.exp.sha256.val

C21_ShaChecked ==
    /\ \A k \in 1..Len(concluded) :
          LET c == concluded[k] IN
          Received(c) =>
             /\ ShaMismatch(c) => c.notice = NoNotice /\ c.task = 0
             /\ (~ShaMismatch(c) /\ c.exp.kind = RES_KIND_NOTICE
                     /\ Decodable(c.resource.data)) =>
                   /\ c.notice = [t |-> T_NOTICE,
                                  body |-> Decode(c.resource.data),
                                  room |-> c.exp.room]
                   /\ c.task \in 1..Len(tasks)
                   /\ tasks[c.task].e.h = "notice"
                   /\ tasks[c.task].e.text = c.notice.body
                   /\ tasks[c.task].e.room = c.notice.room
    /\ \A i \in 1..Len(tasks) :
          Cardinality({k \in 1..Len(concluded) : concluded[k].task = i}) = 1
    /\ \A j \in 1..Len(ui) :
          ui[j].type = "notice" =>
             \E k \in 1..Len(concluded) :
                /\ concluded[k].task = ui[j].pkt
                /\ ~ShaMismatch(concluded[k])

\* a received payload whose digest differs from the expectation's was
\* concluded
C21_Witness ==
    \E k \in 1..Len(concluded) :
       /\ Received(concluded[k])
       /\ ShaMismatch(concluded[k])
       /\ concluded[k].exp.kind = RES_KIND_NOTICE

(***************************************************************************)
(* The discovery catalog: announces, the stale-hub collection and the      *)
(* cache file (backend.py 48-170, 652-660, 1182-1209).  Each handler is    *)
(* one step here; time.time() is `wall`.                                   *)
(***************************************************************************)
STALE_HUB_THRESHOLD_SECONDS == 3600

\* the destination hashes that announce themselves
HubHashes == {"h1", "h2"}

\* the time the run begins at, and how far it advances
HubStart == STALE_HUB_THRESHOLD_SECONDS

MaxHubTicks == 2

MaxAnnounces == 2

\* a faulty variant, for comparison: an entry is stale from the threshold on
StaleFromThreshold(last_seen, t) == t - last_seen >= STALE_HUB_THRESHOLD_SECONDS

\* backend.py 1201: current_time - hub.get("last_seen", 0) > stale_threshold
Stale(last_seen, t) == t - last_seen > STALE_HUB_THRESHOLD_SECONDS

\* backend.py 1198-1202
StaleHubs(hubs, t) == {h \in DOMAIN hubs : Stale(hubs[h], t)}

\* backend.py 1204-1205: del self.discovered_hubs[hash_hex] for each of them
Without(hubs, gone) == [h \in DOMAIN hubs \ gone |-> hubs[h]]

\* self.discovered_hubs[hash_hex] = {..., "last_seen": time.time()}
Upsert(hubs, h, t) ==
    [x \in DOMAIN hubs \cup {h} |-> IF x = h THEN t ELSE hubs[x]]

HubFrame ==
    UNCHANGED <<resVars, connVars, rooms, nicknames, hub_name, ping_task,
                tasks, members, room_operation_times, fwd, reply, callVars,
                timeVars, concluded, raceVars, lockVars, sessVars, moreVars>>

\* backend.py 652-660 with cleanup_stale_hubs (1193-1209) and
\* save_discovered_hubs (1182-1191)
HandleGetDiscoveredHubs ==
    /\ LET current_time == wall
           stale_hubs == StaleHubs(discovered_hubs, current_time)
           kept == Without(discovered_hubs, stale_hubs)
       IN /\ discovered_hubs' = kept
          /\ hub_cache' = IF stale_hubs # {} THEN kept ELSE hub_cache
          /\ hub_saves' = IF stale_hubs # {} THEN hub_saves + 1 ELSE hub_saves
          /\ hub_reply' = [type |-> "discovered_hubs", hubs |-> kept,
                           before |-> discovered_hubs, at |-> current_time]
    /\ UNCHANGED <<wall, ui>>
    /\ HubFrame

\* backend.py 48-170: a valid announce of hub h, on a transport thread
ReceivedAnnounce(h) ==
    /\ hub_saves < MaxAnnounces + Cardinality(HubHashes)
    /\ Len(ui) < MaxAnnounces
    /\ discovered_hubs' = Upsert(discovered_hubs, h, wall)
    /\ hub_cache' = discovered_hubs'
    /\ hub_saves' = hub_saves + 1
    /\ ui' = Append(ui, Bc(0, "hub_discovered", "", h))
    /\ UNCHANGED <<wall, hub_reply>>
    /\ HubFrame

\* time passes
HubTick ==
    /\ wall < HubStart + MaxHubTicks
    /\ wall' = wall + 1
    /\ UNCHANGED <<discovered_hubs, hub_cache, hub_saves, hub_reply, ui>>
    /\ HubFrame

\* the catalog after load_discovered_hubs and the cleanup of init_reticulum
\* (backend.py 246), at time HubStart: empty, two entries last seen a
\* threshold ago and a second later, or one entry whose cached timestamp
\* lies ahead of the clock
HubCatalogs ==
    {<<>>,
     [h \in HubHashes |-> IF h = "h1" THEN 0 ELSE 1],
     [h \in {"h1"} |-> HubStart + MaxHubTicks + 1]}

InitHubs ==
    /\ InitConnDone
    /\ InitBackendState("fresh")
    /\ link = 1
    /\ linkUp = TRUE
    /\ client_rooms = {}
    /\ now = TickStep
    /\ InitResState("empty")
    /\ InitThreads
    /\ room_operation_times = <<>>
    /\ fwd = <<>>
    /\ reply = NoReply
    /\ InitCallIdle
    /\ InitTimeIdle
    /\ concluded = <<>>
    /\ wall = HubStart
    /\ discovered_hubs \in HubCatalogs
    /\ hub_cache = discovered_hubs
    /\ hub_saves = 0
    /\ hub_reply = NoHubReply
    /\ InitRaceIdle
    /\ InitLockIdle
    /\ InitSessIdle
    /\ InitMoreIdle

NextHubs ==
    \/ HandleGetDiscoveredHubs
    \/ \E h \in HubHashes : ReceivedAnnounce(h)
    \/ HubTick

SpecHubs == InitHubs /\ [][NextHubs]_vars

(***************************************************************************)
(* C22: get_discovered_hubs returns exactly the catalog entries with       *)
(* now - last_seen <= 3600: every entry with now - last_seen > 3600 is     *)
(* removed from the catalog before the reply, and the cache file is        *)
(* rewritten if and only if at least one entry was removed.                *)
(***************************************************************************)
C22_State ==
    hub_reply.type = "discovered_hubs" =>
       LET fresh == {h \in DOMAIN hub_reply.before :
                        hub_reply.at - hub_reply.before[h]
                            <= STALE_HUB_THRESHOLD_SECONDS}
       IN hub_reply.hubs = [h \in fresh |-> hub_reply.before[h]]

C22_Step ==
    hub_reply' # hub_reply =>
       /\ hub_reply'.before = discovered_hubs
       /\ hub_reply'.at = wall
       /\ discovered_hubs' = hub_reply'.hubs
       /\ \A h \in DOMAIN discovered_hubs' :
             wall - discovered_hubs'[h] <= STALE_HUB_THRESHOLD_SECONDS
       /\ (hub_saves' # hub_saves) <=>
             (DOMAIN discovered_hubs' # DOMAIN discovered_hubs)
       /\ hub_saves' # hub_saves =>
             hub_saves' = hub_saves + 1 /\ hub_cache' = discovered_hubs'
       /\ hub_saves' = hub_saves => hub_cache' = hub_cache

PostLive(e) ==
    /\ linkUp
    /\ Post(e)

NextDisc ==
    \/ \E e \in BackendEvents : PostLive(e)
    \/ \E i \in 1..Len(tasks) : OnMessage(i)
    \/ \E i \in 1..Len(tasks) : OnNotice(i)
    \/ \E i \in 1..Len(tasks) : OnJoined(i)
    \/ \E i \in 1..Len(tasks) : OnParted(i)
    \/ \E i \in 1..Len(tasks) : OnWelcome(i)
    \/ \E i \in 1..Len(tasks) : OnClose(i)
    \/ \E i \in 1..Len(tasks) : Resume(i)
    \/ HandleDisconnect
    \/ CloseCancel
    \/ CloseTeardown
    \/ LinkClosedClear
    \/ LinkClosedOnClose
    \/ CloseReturn
    \/ DisconnectDone

SpecDisc == InitBackend /\ [][NextDisc]_vars

(***************************************************************************)
(* C23: after a disconnect command completes the client has been closed,   *)
(* the room table holds exactly the room "[Hub]" with no messages and no   *)
(* members, hub_name is cleared, and the room table stays that way until   *)
(* the next connect, even if events of the closed connection that were     *)
(* already posted to the event loop are processed afterwards.              *)
(***************************************************************************)
DisconnectCompleted == ~bclient /\ close_pc = "returned"

C23_ResetStays ==
    DisconnectCompleted =>
       /\ link = NoLink
       /\ ~linkUp
       /\ rooms = [r \in {HubRoom} |-> EmptyMessages]
       /\ members = [r \in {HubRoom} |-> {}]
       /\ hub_name = ""

(***************************************************************************)
(* SpecCase: the backend's handlers fed with events whose room field is    *)
(* spelled as the hub sent it.  validate_envelope (envelope.py 135-142)    *)
(* accepts any string of 1 to 64 characters as a room.                     *)
(***************************************************************************)
\* spellings of one room, as a hub may send them
RoomSpellings == {"general", "General", " general"}

\* room.strip().lower() on those spellings
StripLower(room) == IF room \in RoomSpellings THEN "general" ELSE room

\* what the client's callbacks hand to the backend for a packet of type h
\* with room field raw: on_joined and on_parted pass r = room.strip().lower()
\* (client.py 833-861), on_message and on_notice pass the env as it came
\* (863-882)
ClientEvent(h, raw, single) ==
    [NoEvent EXCEPT !.h = h,
                    !.room = IF h \in {"joined", "parted"} THEN StripLower(raw)
                             ELSE raw,
                    !.nick = IF h = "message" THEN "alice" ELSE "",
                    !.single = single,
                    !.users = IF h \in {"joined", "parted"} THEN UserList(single)
                              ELSE <<>>]

CasedEvents ==
    {ClientEvent(h, raw, FALSE) :
        h \in {"message", "notice", "joined", "parted"}, raw \in RoomSpellings}
    \cup {ClientEvent(h, raw, TRUE) :
        h \in {"joined", "parted"}, raw \in RoomSpellings}

NextCase ==
    \/ \E e \in CasedEvents : Post(e)
    \/ \E i \in 1..Len(tasks) : OnMessage(i)
    \/ \E i \in 1..Len(tasks) : OnNotice(i)
    \/ \E i \in 1..Len(tasks) : OnJoined(i)
    \/ \E i \in 1..Len(tasks) : OnParted(i)
    \/ \E i \in 1..Len(tasks) : Resume(i)

SpecCase == InitBackend /\ [][NextCase]_vars

(***************************************************************************)
(* C24: every key of the backend room table other than "[Hub]" is a        *)
(* normalized room name (stripped and lowercase) after any sequence of     *)
(* inbound MSG, NOTICE, JOINED and PARTED events whose room field may be   *)
(* in any letter case; two spellings of one room that differ only in case  *)
(* never produce two rooms.                                                *)
(***************************************************************************)
C24_KeysNormalized ==
    /\ \A r \in DOMAIN rooms \ {HubRoom} : StripLower(r) = r
    /\ \A r1, r2 \in DOMAIN rooms :
          StripLower(r1) = StripLower(r2) => r1 = r2

(***************************************************************************)
(* The same catalog with its two threads step by step: the event loop in   *)
(* _handle_get_discovered_hubs and a transport thread in received_announce.*)
(* A step is what a thread does between two points where the interpreter   *)
(* may switch threads.  A dict iterator raises RuntimeError at its next    *)
(* step when the size of the dict has changed since it was created.        *)
(***************************************************************************)
RaceFrame ==
    UNCHANGED <<resVars, connVars, rooms, nicknames, hub_name, ping_task,
                tasks, members, room_operation_times, fwd, reply, wall,
                callVars, timeVars, concluded, lockVars, sessVars, moreVars>>

\* the threads that hold an iterator over the catalog
Iterators ==
    (IF gc.pc \in {"scan", "dump"} THEN {"loop"} ELSE {})
    \cup (IF ann.pc = "dump" THEN {"announce"} ELSE {})

\* thread `by` replaces the catalog by `new`
WriteCatalog(by, new) ==
    /\ discovered_hubs' = new
    /\ hub_writes' = hub_writes \cup
          {[by |-> by, lock |-> b_lock, iterating |-> Iterators \ {by},
            grows |-> DOMAIN new # DOMAIN discovered_hubs]}

\* open(self.hub_cache_path, "w") has truncated the file and json.dump has
\* not finished
PartialFile == [h \in {"(partial)"} |-> 0]

\* backend.py 1195-1198: the time is read and the iteration begins
GcBegin ==
    /\ gc.pc = "idle"
    /\ gc' = [GcIdle EXCEPT !.pc = "scan", !.at = wall,
                            !.size = Cardinality(DOMAIN discovered_hubs)]
    /\ UNCHANGED <<discovered_hubs, hub_cache, hub_saves, hub_reply, ann,
                   b_lock, hub_writes, ui>>
    /\ RaceFrame

\* backend.py 1198-1202: one step of the list comprehension
GcScan ==
    /\ gc.pc = "scan"
    /\ IF Cardinality(DOMAIN discovered_hubs) # gc.size
       THEN \* RuntimeError leaves the handler
            /\ gc' = GcIdle
            /\ hub_reply' = [type |-> "exception", hubs |-> <<>>,
                             before |-> <<>>, at |-> gc.at]
       ELSE IF gc.seen = DOMAIN discovered_hubs
       THEN /\ gc' = [gc EXCEPT !.pc = "del"]
            /\ UNCHANGED hub_reply
       ELSE /\ \E h \in DOMAIN discovered_hubs \ gc.seen :
                 gc' = [gc EXCEPT !.seen = @ \cup {h},
                           !.stale = IF Stale(discovered_hubs[h], gc.at)
                                     THEN @ \cup {h} ELSE @]
            /\ UNCHANGED hub_reply
    /\ UNCHANGED <<discovered_hubs, hub_cache, hub_saves, ann, b_lock,
                   hub_writes, ui>>
    /\ RaceFrame

\* backend.py 1204-1209 and 1184-1187: the stale entries are deleted and, if
\* there were any, the cache file is opened for writing
GcDelete ==
    /\ gc.pc = "del"
    /\ IF gc.stale # {}
       THEN /\ WriteCatalog("loop", Without(discovered_hubs, gc.stale))
            /\ hub_cache' = PartialFile
            /\ gc' = [gc EXCEPT !.pc = "dump",
                         !.size = Cardinality(DOMAIN discovered_hubs')]
       ELSE /\ gc' = [gc EXCEPT !.pc = "reply"]
            /\ UNCHANGED <<discovered_hubs, hub_writes, hub_cache>>
    /\ UNCHANGED <<hub_saves, hub_reply, ann, b_lock, ui>>
    /\ RaceFrame

\* backend.py 1187-1191: json.dump has iterated the catalog, or its
\* RuntimeError is caught and logged
GcDump ==
    /\ gc.pc = "dump"
    /\ IF Cardinality(DOMAIN discovered_hubs) # gc.size
       THEN UNCHANGED <<hub_cache, hub_saves>>
       ELSE /\ hub_cache' = discovered_hubs
            /\ hub_saves' = hub_saves + 1
    /\ gc' = [gc EXCEPT !.pc = "reply"]
    /\ UNCHANGED <<discovered_hubs, hub_reply, ann, b_lock, hub_writes, ui>>
    /\ RaceFrame

\* backend.py 660
GcReply ==
    /\ gc.pc = "reply"
    /\ hub_reply' = [type |-> "discovered_hubs", hubs |-> discovered_hubs,
                     before |-> <<>>, at |-> gc.at]
    /\ gc' = GcIdle
    /\ UNCHANGED <<discovered_hubs, hub_cache, hub_saves, ann, b_lock,
                   hub_writes, ui>>
    /\ RaceFrame

\* backend.py 48-148: the transport calls received_announce for hub h
AnnBegin(h) ==
    /\ ann.pc = "idle"
    /\ ann.n < MaxAnnounces
    /\ ann' = [ann EXCEPT !.pc = "lock", !.h = h, !.n = @ + 1]
    /\ UNCHANGED <<discovered_hubs, hub_cache, hub_saves, hub_reply, gc,
                   b_lock, hub_writes, ui>>
    /\ RaceFrame

\* backend.py 150: with self.backend_service._lock
AnnLock ==
    /\ ann.pc = "lock"
    /\ b_lock = ""
    /\ b_lock' = "announce"
    /\ ann' = [ann EXCEPT !.pc = "upsert"]
    /\ UNCHANGED <<discovered_hubs, hub_cache, hub_saves, hub_reply, gc,
                   hub_writes, ui>>
    /\ RaceFrame

\* backend.py 151-156
AnnUpsert ==
    /\ ann.pc = "upsert"
    /\ WriteCatalog("announce", Upsert(discovered_hubs, ann.h, wall))
    /\ ann' = [ann EXCEPT !.pc = "unlock"]
    /\ UNCHANGED <<hub_cache, hub_saves, hub_reply, gc, b_lock, ui>>
    /\ RaceFrame

\* the with block ends
AnnUnlock ==
    /\ ann.pc = "unlock"
    /\ b_lock' = ""
    /\ ann' = [ann EXCEPT !.pc = "save"]
    /\ UNCHANGED <<discovered_hubs, hub_cache, hub_saves, hub_reply, gc,
                   hub_writes, ui>>
    /\ RaceFrame

\* backend.py 159 and 1184-1187: save_discovered_hubs opens the file
AnnSaveBegin ==
    /\ ann.pc = "save"
    /\ hub_cache' = PartialFile
    /\ ann' = [ann EXCEPT !.pc = "dump",
                  !.size = Cardinality(DOMAIN discovered_hubs)]
    /\ UNCHANGED <<discovered_hubs, hub_saves, hub_reply, gc, b_lock,
                   hub_writes, ui>>
    /\ RaceFrame

\* backend.py 1187-1191
AnnDump ==
    /\ ann.pc = "dump"
    /\ IF Cardinality(DOMAIN discovered_hubs) # ann.size
       THEN UNCHANGED <<hub_cache, hub_saves>>
       ELSE /\ hub_cache' = discovered_hubs
            /\ hub_saves' = hub_saves + 1
    /\ ann' = [ann EXCEPT !.pc = "broadcast"]
    /\ UNCHANGED <<discovered_hubs, hub_reply, gc, b_lock, hub_writes, ui>>
    /\ RaceFrame

\* backend.py 161-170: the entry is read again for the broadcast; KeyError
\* is caught at 173
AnnBroadcast ==
    /\ ann.pc = "broadcast"
    /\ ui' = IF ann.h \in DOMAIN discovered_hubs
             THEN Append(ui, Bc(0, "hub_discovered", "", ann.h))
             ELSE ui
    /\ ann' = [AnnIdle EXCEPT !.n = ann.n]
    /\ UNCHANGED <<discovered_hubs, hub_cache, hub_saves, hub_reply, gc,
                   b_lock, hub_writes>>
    /\ RaceFrame

NextHubRace ==
    \/ GcBegin
    \/ GcScan
    \/ GcDelete
    \/ GcDump
    \/ GcReply
    \/ \E h \in HubHashes : AnnBegin(h)
    \/ AnnLock
    \/ AnnUpsert
    \/ AnnUnlock
    \/ AnnSaveBegin
    \/ AnnDump
    \/ AnnBroadcast
    \/ HubTick

SpecHubRace == InitHubs /\ [][NextHubRace]_vars

(***************************************************************************)
(* C25: every write to the discovery catalog (announce upsert, stale-hub   *)
(* deletion) is performed while holding the Backend lock, and a save       *)
(* serializes a snapshot cloned under the lock; hence no save or stale GC  *)
(* iterates the catalog while an announce thread is inserting into it.     *)
(***************************************************************************)
C25_CatalogLocked ==
    \A w \in hub_writes :
       /\ w.lock = w.by
       /\ w.iterating = {}

(***************************************************************************)
(* Client._lock (an RLock, client.py 131) and the calls into the           *)
(* transport, step by step: close(), the link-closed callback and _send.   *)
(* A thread that finds the lock owned by another thread waits.             *)
(***************************************************************************)
\* thread `by` calls transport function fn
TransportCall(by, fn) == [fn |-> fn, by |-> by, held |-> c_lock = by]

LockFrame ==
    UNCHANGED <<connVars, beVars, rateVars, callVars, timeVars, concluded,
                hubVars, raceVars, sessVars, moreVars, wpc, wloc, now, nev,
                matched,
                adv_results, on_close_calls, lc_loc>>

\* client.py 413-421: close() takes the lock, copies and clears, and
\* releases it
CloseLocked ==
    /\ close_pc = "idle"
    /\ c_lock = ""
    /\ close_loc' = [link |-> link, active |-> active_resources]
    /\ link' = NoLink
    /\ client_rooms' = {}
    /\ resource_expectations' = <<>>
    /\ active_resources' = {}
    /\ resource_to_expectation' = <<>>
    /\ close_pc' = "cancel"
    /\ UNCHANGED <<lc_pc, linkUp, transfers, c_lock, snd, tcalls>>
    /\ LockFrame

\* client.py 423-433: Resource.cancel and data.close for each of the copy
CloseCancelCalls ==
    /\ close_pc = "cancel"
    /\ transfers' = transfers \ close_loc.active
    /\ tcalls' = IF close_loc.active = {} THEN tcalls
                 ELSE tcalls \cup {TransportCall("close", "Resource.cancel"),
                                   TransportCall("close", "data.close")}
    /\ close_pc' = "teardown"
    /\ UNCHANGED <<link, client_rooms, resource_expectations, active_resources,
                   resource_to_expectation, close_loc, lc_pc, linkUp, c_lock,
                   snd>>
    /\ LockFrame

\* client.py 435-439: Link.teardown, which runs the closed callback of a
\* link that is still open before it returns
CloseTeardownCall ==
    /\ close_pc = "teardown"
    /\ IF close_loc.link # NoLink
       THEN tcalls' = tcalls \cup {TransportCall("close", "Link.teardown")}
       ELSE tcalls' = tcalls
    /\ IF close_loc.link # NoLink /\ lc_pc = "none"
       THEN /\ linkUp' = FALSE
            /\ lc_pc' = "pending"
            /\ close_pc' = "in_teardown"
       ELSE /\ close_pc' = "returned"
            /\ UNCHANGED <<linkUp, lc_pc>>
    /\ UNCHANGED <<link, client_rooms, resource_expectations, active_resources,
                   resource_to_expectation, close_loc, transfers, c_lock, snd>>
    /\ LockFrame

\* client.py 193: the link-closed callback takes the lock
LinkClosedEnter ==
    /\ lc_pc = "pending"
    /\ c_lock = ""
    /\ c_lock' = "link_closed"
    /\ lc_pc' = "locked"
    /\ UNCHANGED <<link, client_rooms, resource_expectations, active_resources,
                   resource_to_expectation, close_pc, close_loc, linkUp,
                   transfers, snd, tcalls>>
    /\ LockFrame

\* client.py 194-212: inside the with block the state is cleared and each
\* active resource is cancelled and its data closed
LinkClosedBody ==
    /\ lc_pc = "locked"
    /\ link' = NoLink
    /\ client_rooms' = {}
    /\ resource_expectations' = <<>>
    /\ transfers' = transfers \ active_resources
    /\ tcalls' = IF active_resources = {} THEN tcalls
                 ELSE tcalls \cup
                        {TransportCall("link_closed", "Resource.cancel"),
                         TransportCall("link_closed", "data.close")}
    /\ active_resources' = {}
    /\ resource_to_expectation' = <<>>
    /\ lc_pc' = "unlock"
    /\ UNCHANGED <<close_pc, close_loc, linkUp, c_lock, snd>>
    /\ LockFrame

\* the with block ends
LinkClosedExit ==
    /\ lc_pc = "unlock"
    /\ c_lock' = ""
    /\ lc_pc' = "on_close"
    /\ UNCHANGED <<link, client_rooms, resource_expectations, active_resources,
                   resource_to_expectation, close_pc, close_loc, linkUp,
                   transfers, snd, tcalls>>
    /\ LockFrame

\* client.py 716-717: _send reads the link under the lock; with no link it
\* raises (718-721)
SendReadLink ==
    /\ snd.pc = "idle"
    /\ snd.n < MaxCmds
    /\ c_lock = ""
    /\ snd' = IF link = NoLink
              THEN [snd EXCEPT !.n = @ + 1]
              ELSE [snd EXCEPT !.pc = "pack", !.link = link, !.n = @ + 1]
    /\ UNCHANGED <<link, client_rooms, resource_expectations, active_resources,
                   resource_to_expectation, close_pc, close_loc, lc_pc, linkUp,
                   transfers, c_lock, tcalls>>
    /\ LockFrame

\* client.py 724 and 539-555: Packet.pack; fits tells whether it succeeds
SendPack(fits) ==
    /\ snd.pc = "pack"
    /\ tcalls' = tcalls \cup {TransportCall("send", "Packet.pack")}
    /\ snd' = IF fits THEN [snd EXCEPT !.pc = "send"]
              ELSE [SndIdle EXCEPT !.n = snd.n]
    /\ UNCHANGED <<link, client_rooms, resource_expectations, active_resources,
                   resource_to_expectation, close_pc, close_loc, lc_pc, linkUp,
                   transfers, c_lock>>
    /\ LockFrame

\* client.py 737: RNS.Packet(link, payload).send()
SendPacket ==
    /\ snd.pc = "send"
    /\ tcalls' = tcalls \cup {TransportCall("send", "Packet.send")}
    /\ snd' = [SndIdle EXCEPT !.n = snd.n]
    /\ UNCHANGED <<link, client_rooms, resource_expectations, active_resources,
                   resource_to_expectation, close_pc, close_loc, lc_pc, linkUp,
                   transfers, c_lock>>
    /\ LockFrame

NextLock ==
    \/ CloseLocked
    \/ CloseCancelCalls
    \/ CloseTeardownCall
    \/ CloseReturn
    \/ LinkDown
    \/ LinkClosedEnter
    \/ LinkClosedBody
    \/ LinkClosedExit
    \/ LinkClosedOnClose
    \/ SendReadLink
    \/ \E fits \in BOOLEAN : SendPack(fits)
    \/ SendPacket

SpecLock == InitRes /\ [][NextLock]_vars

(***************************************************************************)
(* C26: the Client lock is never held while a transport function is called *)
(* (Packet.send, Packet.pack, Link.teardown, Resource.cancel, closing a    *)
(* resource's data stream): in close(), in the link-closed callback and in *)
(* every send path the lock is released before the transport is invoked.   *)
(***************************************************************************)
C26_NoTransportUnderLock == \A c \in tcalls : ~c.held

(***************************************************************************)
(* C29: if connect() fails with TIMEOUT while waiting for WELCOME, the     *)
(* link it created is torn down and the client's link reference is nil     *)
(* when the error is returned, so that no later send, HELLO or inbound     *)
(* packet uses that link.                                                  *)
(***************************************************************************)
C29_State ==
    conn_pc = "timeout" => link = NoLink /\ ~linkUp

C29_Step ==
    conn_pc = "timeout" =>
       /\ wire' = wire
       /\ welcomed' = welcomed
       /\ hub_hello' = hub_hello

C29_TimeoutTearsDown == [](C29_State) /\ [][C29_Step]_vars

(***************************************************************************)
(* SpecSess: the connection commands of the UI across the Client objects   *)
(* the backend creates (backend.py 296-452, 532-577, 624-650, 1080-1096).  *)
(* A client's link is "none" until connect() has made it, then "open", and *)
(* "closed" once the transport has closed it; ref tells whether the        *)
(* client's link reference is set.  _handle_connect is two steps, before   *)
(* and after its await of Client.connect; the other handlers are one.      *)
(***************************************************************************)
REQUIRED_HUB_HASH_LENGTH == 32

MaxHubHashLen == 128

\* Client objects created in one run
MaxClients == 2

\* Client.__init__
NewClient == [link |-> "none", ref |-> FALSE, welcomed |-> FALSE]

\* the hub_hash parameter of a connect command: its length, and whether it
\* is made of hexadecimal digits
HubHashInputs ==
    {[len |-> l, hex |-> h] :
        l \in {0, REQUIRED_HUB_HASH_LENGTH - 1, REQUIRED_HUB_HASH_LENGTH,
               MaxHubHashLen + 1},
        h \in BOOLEAN}

\* backend.py 313-315: the parameter checks made before anything else
BadParameter(hub_hash) == hub_hash.len > MaxHubHashLen

\* backend.py 368-389: the checks made on the hub hash
BadHubHash(hub_hash) ==
    \/ hub_hash.len = 0
    \/ ~hub_hash.hex
    \/ hub_hash.len # REQUIRED_HUB_HASH_LENGTH

SessFrame ==
    UNCHANGED <<resVars, conn_pc, welcomed, link_made, est_pc, hello_pc,
                hello_n, hub_hello, wel_inflight, wire, ncmd, nicknames, tasks,
                rateVars, callVars, timeVars, concluded, hubVars, raceVars,
                lockVars, moreVars>>

\* backend.py 1080-1096, run for the on_close of client k
OnCloseOf(k) ==
    <<Bc(k, "system", HubRoom, "Disconnected from hub"),
      Bc(k, "disconnected", "", "")>>

\* backend.py 296-391: a connect command, up to the call of Client.connect
ConnectCmd(hub_hash) ==
    /\ connecting = 0
    /\ Len(clients) < MaxClients
    /\ IF BadParameter(hub_hash)
       THEN /\ sreply' = [cmd |-> "connect", type |-> "error",
                          stage |-> "parameters"]
            /\ UNCHANGED <<clients, cur, bclient, connecting>>
       ELSE /\ clients' = Append(clients, NewClient)
            /\ cur' = Len(clients) + 1
            /\ bclient' = TRUE
            /\ IF BadHubHash(hub_hash)
               THEN /\ sreply' = [cmd |-> "connect", type |-> "error",
                                  stage |-> "hub_hash"]
                    /\ UNCHANGED connecting
               ELSE /\ connecting' = Len(clients) + 1
                    /\ UNCHANGED sreply
    /\ UNCHANGED <<rooms, members, hub_name, ping_task, ui, carried>>
    /\ SessFrame

\* backend.py 392-429 with client.py 276-409 and backend.py 865-896:
\* Client.connect returns after WELCOME, whose handler has run, or raises
\* before it made a link, or raises after timeout_s without WELCOME
ConnectEnd(outcome) ==
    /\ connecting # 0
    /\ LET k == connecting
           message == Bc(k, "notice", HubRoom, "Connected to hub: Demo Hub")
       IN
       IF outcome = "welcomed"
       THEN /\ clients' = [clients EXCEPT ![k] =
                   [link |-> "open", ref |-> TRUE, welcomed |-> TRUE]]
            /\ hub_name' = "Demo Hub"
            /\ rooms' = [WithRoom(rooms, HubRoom) EXCEPT
                            ![HubRoom] = MsgAppend(@, message)]
            /\ members' = WithMembers(members, HubRoom)
            /\ ui' = ui \o <<message, Bc(k, "hub_info", "", "Demo Hub")>>
            /\ ping_task' = TRUE
            /\ sreply' = [cmd |-> "connect", type |-> "connected"]
       ELSE /\ clients' = IF outcome = "timeout"
                          THEN [clients EXCEPT ![k] =
                                  [link |-> "open", ref |-> TRUE,
                                   welcomed |-> FALSE]]
                          ELSE clients
            /\ sreply' = [cmd |-> "connect", type |-> "error",
                          stage |-> "connect"]
            /\ UNCHANGED <<hub_name, rooms, members, ui, ping_task>>
    /\ connecting' = 0
    /\ UNCHANGED <<cur, bclient, carried>>
    /\ SessFrame

\* client.py 187-218 and backend.py 1080-1096: the transport closes the link
\* of client k, whose on_close posts BackendService._on_close
LinkCloses(k) ==
    /\ k \in 1..Len(clients)
    /\ clients[k].link = "open"
    /\ clients' = [clients EXCEPT ![k].link = "closed", ![k].ref = FALSE]
    /\ ping_task' = FALSE
    /\ ui' = ui \o OnCloseOf(k)
    /\ UNCHANGED <<cur, bclient, connecting, sreply, carried, rooms, members,
                   hub_name>>
    /\ SessFrame

\* backend.py 431-452 with client.py 411-439
DisconnectCmd ==
    /\ connecting = 0
    /\ IF cur # 0
       THEN /\ clients' = [clients EXCEPT
                   ![cur].ref = FALSE,
                   ![cur].link = IF @ = "open" THEN "closed" ELSE @]
            /\ IF clients[cur].link = "open"
               THEN /\ ping_task' = FALSE
                    /\ ui' = ui \o OnCloseOf(cur)
               ELSE UNCHANGED <<ping_task, ui>>
       ELSE UNCHANGED <<clients, ping_task, ui>>
    /\ cur' = 0
    /\ bclient' = FALSE
    /\ rooms' = [r \in {HubRoom} |-> EmptyMessages]
    /\ members' = [r \in {HubRoom} |-> {}]
    /\ hub_name' = ""
    /\ sreply' = [cmd |-> "disconnect", type |-> "disconnected"]
    /\ UNCHANGED <<connecting, carried>>
    /\ SessFrame

\* backend.py 532-577 with client.py 706-737, for a valid room and text
SendMessageCmd ==
    /\ IF cur = 0
       THEN /\ sreply' = [cmd |-> "send_message", type |-> "error"]
            /\ UNCHANGED carried
       ELSE IF ~clients[cur].ref
       THEN /\ sreply' = [cmd |-> "send_message", type |-> "error"]
            /\ UNCHANGED carried
       ELSE /\ sreply' = [cmd |-> "send_message", type |-> "message_sent",
                          client |-> cur]
            /\ carried' = carried \cup {cur}
    /\ UNCHANGED <<clients, cur, bclient, connecting, rooms, members, hub_name,
                   ping_task, ui>>
    /\ SessFrame

\* backend.py 624-650
GetState ==
    /\ sreply' = [cmd |-> "get_state", type |-> "state",
                  connected |-> cur # 0]
    /\ UNCHANGED <<clients, cur, bclient, connecting, carried, rooms, members,
                   hub_name, ping_task, ui>>
    /\ SessFrame

NextSess ==
    \/ \E x \in HubHashInputs : ConnectCmd(x)
    \/ \E o \in {"welcomed", "no_identity", "timeout"} : ConnectEnd(o)
    \/ \E k \in 1..Len(clients) : LinkCloses(k)
    \/ DisconnectCmd
    \/ SendMessageCmd
    \/ GetState

SpecSess == InitConn /\ [][NextSess]_vars

(***************************************************************************)
(* C27: the Backend cancels the ping loop and broadcasts 'Disconnected     *)
(* from hub' and `disconnected` only when the link of the currently active *)
(* connection closes: a link-closed callback for a link that has been      *)
(* superseded by a later connect neither clears the current link reference *)
(* and client state nor cancels the ping loop of the current connection.   *)
(***************************************************************************)
Superseded(k) ==
    /\ cur # 0
    /\ k # cur
    /\ clients[k].link = "open"
    /\ clients[cur].link = "open"
    /\ clients[cur].welcomed

C27_Step ==
    \A k \in 1..Len(clients) :
       (Superseded(k) /\ clients'[k].link = "closed") =>
          /\ ping_task' = ping_task
          /\ ui' = ui
          /\ clients'[cur] = clients[cur]

C27_OnlyActiveLink == [][C27_Step]_vars

(***************************************************************************)
(* C28: a connect command that is rejected with an error before            *)
(* Client.connect is called (hub_hash empty, non-hexadecimal, or not       *)
(* exactly 32 hex characters) leaves the Backend's connection state        *)
(* unchanged: the previously active Client is still the Backend's client   *)
(* and later send_message commands still go to its link.                   *)
(***************************************************************************)
RejectedConnect(r) ==
    /\ r.cmd = "connect"
    /\ r.type = "error"
    /\ r.stage \in {"parameters", "hub_hash"}

C28_Step ==
    (sreply' # sreply /\ RejectedConnect(sreply')) =>
       /\ cur' = cur
       /\ clients' = clients
       /\ bclient' = bclient

C28_RejectedConnectKeepsClient == [][C28_Step]_vars

(***************************************************************************)
(* C30: the state snapshot returned by get_state reports connected = true  *)
(* only while a connection is established, that is after a connect command *)
(* succeeded and before the link closed or a disconnect command ran.       *)
(***************************************************************************)
ConnectionEstablished ==
    /\ cur # 0
    /\ clients[cur].welcomed
    /\ clients[cur].link = "open"

C30_Step ==
    (sreply'.cmd = "get_state" /\ sreply'.connected) => ConnectionEstablished

C30_ConnectedOnlyEstablished == [][C30_Step]_vars

(***************************************************************************)
(* SpecLinkClosed: Client._on_link_closed (client.py 187-218) one          *)
(* statement at a time, concurrent with close() and _send.  The client     *)
(* starts welcomed and joined to one room.                                 *)
(***************************************************************************)
LcFrame ==
    UNCHANGED <<connVars, beVars, rateVars, callVars, timeVars, concluded,
                hubVars, raceVars, sessVars, moreVars, wpc, wloc, now, nev,
                matched,
                adv_results, close_pc, close_loc, linkUp, snd>>

\* client.py 193 `with self._lock:` the owner of the lock inside the block
WithoutLock(t) == ""

WithLock(t) == t

\* the statements of the block that clear state, by the position before them
LcClearing ==
    {"clear_rooms", "copy_active", "clear_expectations", "clear_active",
     "clear_map"}

\* client.py 193
LcEnter ==
    /\ lc_pc = "pending"
    /\ c_lock = ""
    /\ c_lock' = WithLock("link_closed")
    /\ lc_pc' = "clear_link"
    /\ UNCHANGED <<link, client_rooms, resource_expectations, active_resources,
                   resource_to_expectation, transfers, tcalls, lc_loc,
                   on_close_calls>>
    /\ LcFrame

\* client.py 194
LcClearLink ==
    /\ lc_pc = "clear_link"
    /\ link' = NoLink
    /\ lc_pc' = "clear_rooms"
    /\ UNCHANGED <<client_rooms, resource_expectations, active_resources,
                   resource_to_expectation, transfers, tcalls, lc_loc, c_lock,
                   on_close_calls>>
    /\ LcFrame

\* client.py 195
LcClearRooms ==
    /\ lc_pc = "clear_rooms"
    /\ client_rooms' = {}
    /\ lc_pc' = "copy_active"
    /\ UNCHANGED <<link, resource_expectations, active_resources,
                   resource_to_expectation, transfers, tcalls, lc_loc, c_lock,
                   on_close_calls>>
    /\ LcFrame

\* client.py 196
LcCopyActive ==
    /\ lc_pc = "copy_active"
    /\ lc_loc' = [lc_loc EXCEPT !.active = active_resources]
    /\ lc_pc' = "clear_expectations"
    /\ UNCHANGED <<link, client_rooms, resource_expectations, active_resources,
                   resource_to_expectation, transfers, tcalls, c_lock,
                   on_close_calls>>
    /\ LcFrame

\* client.py 197
LcClearExpectations ==
    /\ lc_pc = "clear_expectations"
    /\ resource_expectations' = <<>>
    /\ lc_pc' = "clear_active"
    /\ UNCHANGED <<link, client_rooms, active_resources,
                   resource_to_expectation, transfers, tcalls, lc_loc, c_lock,
                   on_close_calls>>
    /\ LcFrame

\* client.py 198
LcClearActive ==
    /\ lc_pc = "clear_active"
    /\ active_resources' = {}
    /\ lc_pc' = "clear_map"
    /\ UNCHANGED <<link, client_rooms, resource_expectations,
                   resource_to_expectation, transfers, tcalls, lc_loc, c_lock,
                   on_close_calls>>
    /\ LcFrame

\* client.py 199
LcClearMap ==
    /\ lc_pc = "clear_map"
    /\ resource_to_expectation' = <<>>
    /\ lc_pc' = "cancel"
    /\ UNCHANGED <<link, client_rooms, resource_expectations, active_resources,
                   transfers, tcalls, lc_loc, c_lock, on_close_calls>>
    /\ LcFrame

\* client.py 201-212: cancel and data.close for each resource of the copy;
\* an exception of either is caught
LcCancel ==
    /\ lc_pc = "cancel"
    /\ transfers' = transfers \ lc_loc.active
    /\ tcalls' = IF lc_loc.active = {} THEN tcalls
                 ELSE tcalls \cup
                        {TransportCall("link_closed", "Resource.cancel"),
                         TransportCall("link_closed", "data.close")}
    /\ lc_pc' = "unlock"
    /\ UNCHANGED <<link, client_rooms, resource_expectations, active_resources,
                   resource_to_expectation, lc_loc, c_lock, on_close_calls>>
    /\ LcFrame

\* the with block ends
LcExit ==
    /\ lc_pc = "unlock"
    /\ c_lock' = IF c_lock = "link_closed" THEN "" ELSE c_lock
    /\ lc_pc' = "on_close"
    /\ UNCHANGED <<link, client_rooms, resource_expectations, active_resources,
                   resource_to_expectation, transfers, tcalls, lc_loc,
                   on_close_calls>>
    /\ LcFrame

\* client.py 214-218: on_close, whose exception is caught
LcOnClose ==
    /\ lc_pc = "on_close"
    /\ on_close_calls' = on_close_calls + 1
    /\ lc_loc' = [lc_loc EXCEPT !.held = (c_lock = "link_closed")]
    /\ tasks' = Append(tasks, NewTask([NoEvent EXCEPT !.h = "close"]))
    /\ lc_pc' = "done"
    /\ UNCHANGED <<link, client_rooms, resource_expectations, active_resources,
                   resource_to_expectation, transfers, tcalls, c_lock>>
    /\ UNCHANGED <<connVars, rooms, nicknames, hub_name, ping_task, ui, members,
                   rateVars, callVars, timeVars, concluded, hubVars, raceVars,
                   sessVars, moreVars, wpc, wloc, now, nev, matched,
                   adv_results,
                   close_pc, close_loc, linkUp, snd>>

InitLinkClosed ==
    /\ InitConnDone
    /\ InitBackendState("fresh")
    /\ link = 1
    /\ linkUp = TRUE
    /\ client_rooms = {"general"}
    /\ now = TickStep
    /\ \E sc \in {"empty", "active", "pending"} : InitResState(sc)
    /\ InitThreads
    /\ InitAux

NextLinkClosed ==
    \/ CloseLocked
    \/ CloseCancelCalls
    \/ CloseTeardownCall
    \/ CloseReturn
    \/ LinkDown
    \/ LcEnter
    \/ LcClearLink
    \/ LcClearRooms
    \/ LcCopyActive
    \/ LcClearExpectations
    \/ LcClearActive
    \/ LcClearMap
    \/ LcCancel
    \/ LcExit
    \/ LcOnClose
    \/ SendReadLink
    \/ \E fits \in BOOLEAN : SendPack(fits)
    \/ SendPacket

SpecLinkClosed == InitLinkClosed /\ [][NextLinkClosed]_vars

(***************************************************************************)
(* C31: the link-closed callback clears the link reference, the local      *)
(* rooms set, the expectation table, the active-resource set and the       *)
(* resource-to-expectation map in one critical section, so that no other   *)
(* thread observes some of them cleared and others not; it cancels every   *)
(* resource that was active, and then invokes on_close exactly once, after *)
(* the lock is released.                                                   *)
(***************************************************************************)
\* what close() read in its own locked block is all of a client with a link
\* and its tables, or all of a cleared client
CloseSawWhole ==
    close_pc # "idle" =>
       (close_loc.link = NoLink => close_loc.active = {})

C31_LinkClosedAtomic ==
    /\ lc_pc \in LcClearing => c_lock = "link_closed"
    /\ CloseSawWhole
    /\ lc_pc \in {"unlock", "on_close", "done"} =>
          /\ link = NoLink
          /\ client_rooms = {}
          /\ resource_expectations = <<>>
          /\ active_resources = {}
          /\ resource_to_expectation = <<>>
          /\ transfers \cap lc_loc.active = {}
    /\ on_close_calls = (IF lc_pc = "done" THEN 1 ELSE 0)
    /\ lc_pc = "done" => ~lc_loc.held /\ c_lock # "link_closed"

\* the callback found transfers active, cancelled them, and has called
\* on_close
C31_Witness ==
    /\ lc_pc = "done"
    /\ lc_loc.active # {}
    /\ on_close_calls = 1

(***************************************************************************)
(* SpecHello: the rrc-client-hello thread (client.py 347-374) with the     *)
(* clock, one statement at a time, next to the connect() that stores the   *)
(* link, the WELCOME of the hub, and a close or a new connect that changes *)
(* the link reference.  mono counts the seconds since the thread began.    *)
(***************************************************************************)
hello_interval_s == 3

\* the most whole seconds one time.sleep(0.1) takes
MaxSleep == 2

HelloFrame ==
    UNCHANGED <<conn_pc, link_made, est_pc, hello_pc, hello_n, hub_hello,
                wel_inflight, wire, ncmd, bclient, beVars, rateVars, callVars,
                deadline, concluded, hubVars, raceVars, lockVars, sessVars,
                expVars, rop, cbk, anx, client_rooms, resource_expectations,
                active_resources,
                resource_to_expectation, wpc, wloc, close_pc, close_loc, lc_pc,
                linkUp, transfers, now, nev, matched, adv_results,
                on_close_calls>>

\* client.py 355: the condition of the while loop
LoopGoesOnRegardless(t, until, is_set) == TRUE

LoopGoesOn(t, until, is_set) == t < until /\ ~is_set

\* client.py 361: whether this iteration sends a HELLO
SendDueUncapped(attempts, t, next_send) == t >= next_send

SendDue(attempts, t, next_send) ==
    attempts < hello_max_attempts /\ t >= next_send

\* client.py 178-185, 349-353: the established callback computes the deadline
\* and starts the thread, which sets next_send and attempts
HlStart(timeout_s) ==
    /\ hl.pc = "idle"
    /\ link_made
    /\ hl' = [pc |-> "while", link |-> 1, until |-> mono + timeout_s,
              next_send |-> mono, attempts |-> 0, seen |-> "none"]
    /\ UNCHANGED <<link, welcomed, mono, hello_log>>
    /\ HelloFrame

\* client.py 355
HlWhile ==
    /\ hl.pc = "while"
    /\ hl' = IF LoopGoesOn(mono, hl.until, welcomed)
             THEN [hl EXCEPT !.pc = "check_link"]
             ELSE [hl EXCEPT !.pc = "exited",
                             !.seen = IF mono < hl.until THEN "welcomed"
                                      ELSE "deadline"]
    /\ UNCHANGED <<link, welcomed, mono, hello_log>>
    /\ HelloFrame

\* client.py 356-358
HlCheckLink ==
    /\ hl.pc = "check_link"
    /\ hl' = IF link # hl.link
             THEN [hl EXCEPT !.pc = "exited", !.seen = "link"]
             ELSE [hl EXCEPT !.pc = "send"]
    /\ UNCHANGED <<link, welcomed, mono, hello_log>>
    /\ HelloFrame

\* client.py 360-372: _send_hello succeeds (ok) or raises, and is counted
\* either way
HlSend(ok) ==
    /\ hl.pc = "send"
    /\ IF SendDue(hl.attempts, mono, hl.next_send)
       THEN /\ hello_log' = Append(hello_log,
                   [at |-> mono, ok |-> ok, link |-> hl.link,
                    seen |-> hl.seen])
            /\ hl' = [hl EXCEPT !.pc = "sleep", !.attempts = @ + 1,
                                !.next_send = mono + hello_interval_s]
       ELSE /\ ok
            /\ hl' = [hl EXCEPT !.pc = "sleep"]
            /\ UNCHANGED hello_log
    /\ UNCHANGED <<link, welcomed, mono>>
    /\ HelloFrame

\* client.py 374: time.sleep(0.1), the one place where the thread lets time
\* pass: the clock is d whole seconds further when it wakes.  The clock is
\* followed up to the deadline of the loop.
HlSleep(d) ==
    /\ hl.pc = "sleep"
    /\ d > 0 => mono < hl.until
    /\ hl' = [hl EXCEPT !.pc = "while"]
    /\ mono' = mono + d
    /\ UNCHANGED <<link, welcomed, hello_log>>
    /\ HelloFrame

\* client.py 821-823: the WELCOME that answers a HELLO sets the event
HlWelcome ==
    /\ ~welcomed
    /\ \E i \in 1..Len(hello_log) : hello_log[i].ok
    /\ welcomed' = TRUE
    /\ UNCHANGED <<link, mono, hl, hello_log>>
    /\ HelloFrame

\* client.py 194, 415, 397: the link closes or close() runs (NoLink), or
\* another connect() stores its own link (2)
HlLinkChanges(new) ==
    /\ link = 1
    /\ link' = new
    /\ UNCHANGED <<welcomed, mono, hl, hello_log>>
    /\ HelloFrame

HlLoopStep ==
    \/ HlWhile
    \/ HlCheckLink
    \/ \E ok \in BOOLEAN : HlSend(ok)
    \/ \E d \in 0..MaxSleep : HlSleep(d)

\* a sleep during which the clock reaches the next whole second
HlSecondPasses == \E d \in 1..MaxSleep : HlSleep(d)

\* connect() has made the link (client.py 389-394) and has not stored it yet
InitHello ==
    /\ bclient = TRUE
    /\ conn_pc = "store_link"
    /\ welcomed = FALSE
    /\ link_made = TRUE
    /\ est_pc = "none"
    /\ hello_pc = "none"
    /\ hello_n = 0
    /\ hub_hello = 0
    /\ wel_inflight = 0
    /\ wire = {}
    /\ ncmd = 0
    /\ rooms = [r \in {HubRoom} |-> EmptyMessages]
    /\ members = [r \in {HubRoom} |-> {}]
    /\ nicknames = ""
    /\ hub_name = ""
    /\ ping_task = FALSE
    /\ tasks = <<>>
    /\ ui = <<>>
    /\ InitAux
    /\ link = NoLink
    /\ linkUp = FALSE
    /\ client_rooms = {}
    /\ now = TickStep
    /\ InitResState("empty")
    /\ InitThreads

NextHello ==
    \/ ConnStoreLink
    \/ \E t \in Timeouts : HlStart(t)
    \/ HlLoopStep
    \/ HlWelcome
    \/ \E new \in {NoLink, 2} : HlLinkChanges(new)

SpecHello == InitHello /\ [][NextHello]_vars

\* the thread keeps running, and of its sleeps of a tenth of a second some
\* end in the next second
SpecHelloLive == SpecHello /\ WF_vars(HlLoopStep) /\ SF_vars(HlSecondPasses)

(***************************************************************************)
(* C32: for each established link the HELLO loop sends at most             *)
(* hello_max_attempts (3) HELLO envelopes, consecutive sends are at least  *)
(* hello_interval_s apart, and no HELLO is sent on that link once the loop *)
(* has observed welcomed set or a changed link reference.                  *)
(***************************************************************************)
C32_State ==
    /\ Len(hello_log) <= hello_max_attempts
    /\ \A i \in 1..(Len(hello_log) - 1) :
          hello_log[i + 1].at - hello_log[i].at >= hello_interval_s
    /\ \A i \in 1..Len(hello_log) :
          hello_log[i].seen = "none" /\ hello_log[i].link = 1

C32_Step == hl.seen # "none" => hello_log' = hello_log

C32_HelloBounded == [](C32_State) /\ [][C32_Step]_vars

\* the loop has made all its attempts
C32_Witness ==
    /\ Len(hello_log) = hello_max_attempts
    /\ hl.pc = "exited"

(***************************************************************************)
(* C33: every HELLO loop terminates: it exits once the welcomed event is   *)
(* set, once the link reference no longer is the link it was started for,  *)
(* or once its deadline passes, whichever comes first, also when every     *)
(* HELLO send fails.                                                       *)
(***************************************************************************)
C33_HelloTerminates == (hl.pc # "idle") ~> (hl.pc = "exited")

\* every send failed and the loop ended at its deadline
C33_Witness ==
    /\ hl.pc = "exited"
    /\ hl.seen = "deadline"
    /\ Len(hello_log) = hello_max_attempts
    /\ \A i \in 1..Len(hello_log) : ~hello_log[i].ok

(***************************************************************************)
(* SpecExpire: the expectation table against the clock.  RESOURCE_ENVELOPE *)
(* packets are recorded (client.py 793-816), advertisements are looked up  *)
(* (584-620, with 557-582 in its two locked blocks), and time passes       *)
(* between any two of these steps, from one of the instants around the     *)
(* time to live to the next.                                               *)
(***************************************************************************)
\* transport events in one run
MaxExpEvents == 4

\* how many seconds past the first time to live the clock is followed
MaxExpLate == 1

\* the instants of a run, in seconds
ExpInstants ==
    {0} \cup
    ((resource_expectation_ttl_s - 1)..(resource_expectation_ttl_s + MaxExpLate))

\* the RESOURCE_ENVELOPE bodies of a run: id and size
ExpBodies == {<<1, 1>>, <<2, 2>>}

ExpSizes == {1, 2}

ExpFrame ==
    UNCHANGED <<connVars, beVars, rateVars, callVars, timeVars, concluded,
                hubVars, raceVars, lockVars, sessVars, helloVars, rop, cbk, anx,
                link,
                client_rooms, wpc, wloc, close_pc, close_loc, lc_pc, linkUp,
                matched, adv_results, on_close_calls>>

\* client.py 793-816: a valid RESOURCE_ENVELOPE is recorded with the time
\* read at line 793
ExpEnvelope(rid, size) ==
    /\ nev < MaxExpEvents
    /\ ValidResourceEnvelope(size)
    /\ resource_expectations' =
          RecordExpectation(resource_expectations,
                            NewExpectation(rid, size, now, 100 + nev))
    /\ nev' = nev + 1
    /\ UNCHANGED <<active_resources, resource_to_expectation, transfers, now,
                   fe, match_log>>
    /\ ExpFrame

\* client.py 593-608: an advertisement passes the size and the active-set
\* checks and _find_resource_expectation is called
ExpAdvertised(size) ==
    /\ fe.pc = "idle"
    /\ nev < MaxExpEvents
    /\ AdvertiseRefused(size, active_resources) = ""
    /\ fe' = [pc |-> "cleanup", size |-> size, sampled |-> 0]
    /\ nev' = nev + 1
    /\ UNCHANGED <<resource_expectations, active_resources,
                   resource_to_expectation, transfers, now, match_log>>
    /\ ExpFrame

\* client.py 557-565: the cleanup reads the clock and purges
ExpCleanup ==
    /\ fe.pc = "cleanup"
    /\ fe' = [fe EXCEPT !.pc = "find", !.sampled = now]
    /\ resource_expectations' = CleanupExpired(resource_expectations, now)
    /\ UNCHANGED <<active_resources, resource_to_expectation, transfers, now,
                   nev, match_log>>
    /\ ExpFrame

\* client.py 578-582 and 609-620: the lookup in its own locked block; a
\* match is popped and the transfer is recorded and accepted
ExpFind ==
    /\ fe.pc = "find"
    /\ LET i == FindIndex(resource_expectations, fe.size)
           res == max_active_resources + nev
       IN
       IF i = 0
       THEN UNCHANGED <<resource_expectations, active_resources,
                        resource_to_expectation, transfers, match_log>>
       ELSE /\ resource_expectations' = RemoveAt(resource_expectations, i)
            /\ match_log' = match_log \cup
                  {[exp |-> resource_expectations[i], sampled |-> fe.sampled,
                    at |-> now]}
            /\ active_resources' = active_resources \cup {res}
            /\ resource_to_expectation' =
                  [r \in DOMAIN resource_to_expectation \cup {res} |->
                      IF r = res THEN resource_expectations[i]
                      ELSE resource_to_expectation[r]]
            /\ transfers' = transfers \cup {res}
    /\ fe' = FeIdle
    /\ UNCHANGED <<now, nev>>
    /\ ExpFrame

\* time passes, up to the next instant
ExpTick ==
    /\ \E t \in ExpInstants : t > now
    /\ now' = CHOOSE t \in ExpInstants :
                 t > now /\ \A u \in ExpInstants : u > now => t <= u
    /\ UNCHANGED <<resource_expectations, active_resources,
                   resource_to_expectation, transfers, nev, fe, match_log>>
    /\ ExpFrame

InitExpire ==
    /\ InitConnDone
    /\ InitBackendState("fresh")
    /\ link = 1
    /\ linkUp = TRUE
    /\ client_rooms = {}
    /\ now = 0
    /\ InitResState("empty")
    /\ InitThreads
    /\ InitAux

NextExpire ==
    \/ \E b \in ExpBodies : ExpEnvelope(b[1], b[2])
    \/ \E size \in ExpSizes : ExpAdvertised(size)
    \/ ExpCleanup
    \/ ExpFind
    \/ ExpTick

SpecExpire == InitExpire /\ [][NextExpire]_vars

(***************************************************************************)
(* C34: every expectation has expires_at = created_at + 30 s, and an       *)
(* expectation is never matched to an advertised resource at or after its  *)
(* expires_at: each find-expectation call first purges entries with        *)
(* now >= expires_at, so an advertisement arriving 30 s or more after its  *)
(* RESOURCE_ENVELOPE is rejected.                                          *)
(***************************************************************************)
ExpiryIsTtl(e) == e.expires_at = e.created_at + resource_expectation_ttl_s

NoCallback(c) == c.notice = NoNotice /\ c.task = 0

C35_ConcludedDispatch ==
    \A k \in 1..Len(concluded) :
       LET c == concluded[k] IN
       /\ c.res \notin active_resources
       /\ c.res \notin DOMAIN resource_to_expectation
       /\ ~NoCallback(c) =>
             /\ c.registered
             /\ c.resource.status = "complete"
             /\ c.exp.kind \in {RES_KIND_NOTICE, RES_KIND_MOTD}
             /\ c.notice.t = T_NOTICE
             /\ c.notice.room = (IF c.exp.kind = RES_KIND_NOTICE
                                 THEN c.exp.room ELSE "")
             /\ c.task \in 1..Len(tasks)
             /\ tasks[c.task].e.h = "notice"
             /\ tasks[c.task].e.room = c.notice.room
       /\ c.resource.status # "complete" => NoCallback(c)
       /\ ~c.registered => NoCallback(c)
       /\ (c.registered /\ c.exp.kind \notin {RES_KIND_NOTICE, RES_KIND_MOTD})
             => NoCallback(c)

\* a MOTD of an expectation that names a room was passed on with no room, a
\* complete transfer without expectation was dropped, and both are gone from
\* the tables
C35_Witness ==
    /\ \E k \in 1..Len(concluded) :
          /\ concluded[k].registered
          /\ concluded[k].exp.kind = RES_KIND_MOTD
          /\ concluded[k].exp.room = "general"
          /\ concluded[k].notice.t = T_NOTICE
          /\ concluded[k].notice.room = ""
    /\ \E k \in 1..Len(concluded) :
          /\ ~concluded[k].registered
          /\ concluded[k].resource.status = "complete"
          /\ concluded[k].resource.readable
          /\ concluded[k].handler
          /\ NoCallback(concluded[k])
    /\ active_resources = {}

(***************************************************************************)
(* SpecRooms: everything that touches Client.rooms (client.py 195, 416,    *)
(* 479, 838, 853): join() and part(), inbound JOINED and PARTED packets,   *)
(* close() and the link-closed callback.  Room names are strings as they   *)
(* are given, with upper case and surrounding blanks.                      *)
(***************************************************************************)
\* a packet without room field
AbsentRoom == "(none)"

RoomsGiven == {"general", " General ", "other", " "}

\* room.strip().lower()
RoomKey(room) ==
    IF room \in {"general", " General "} THEN "general"
    ELSE IF room \in {" ", ""} THEN ""
    ELSE room

CrFrame ==
    UNCHANGED <<connVars, beVars, rateVars, callVars, timeVars, concluded,
                hubVars, raceVars, lockVars, sessVars, helloVars, expVars, cbk,
                anx, link, resource_expectations, active_resources,
                resource_to_expectation, wpc, wloc, close_pc, close_loc, lc_pc,
                linkUp, transfers, now, nev, matched, adv_results,
                on_close_calls>>

\* client.py 452-460 and 473-476: how join() and part() end, up to the
\* return of _send
RoomCallResult(t, room, fits) ==
    IF RoomKey(room) = "" THEN "ValueError"
    ELSE SendOutcome(make_envelope(t, NoStr, NoStr), fits, FALSE).result

\* a faulty variant, for comparison: the room is discarded before the send
RoomsAfterPartAlways(rs, r, result) == IF r = "" THEN rs ELSE rs \ {r}

\* client.py 477-479: reached only when _send has returned
RoomsAfterPart(rs, r, result) == IF result = "ok" THEN rs \ {r} ELSE rs

\* client.py 441-460
CrJoin(room, fits) ==
    /\ rop' = [op |-> "join", room |-> room,
               result |-> RoomCallResult(T_JOIN, room, fits)]
    /\ UNCHANGED client_rooms
    /\ CrFrame

\* client.py 462-479
CrPart(room, fits) ==
    /\ rop' = [op |-> "part", room |-> room,
               result |-> RoomCallResult(T_PART, room, fits)]
    /\ client_rooms' = RoomsAfterPart(client_rooms, RoomKey(room), rop'.result)
    /\ CrFrame

\* client.py 833-861: a valid JOINED or PARTED packet; its room field is
\* absent or a string of 1 to 64 characters (envelope.py 135-142)
CrPacket(t, room) ==
    /\ linkUp
    /\ rop' = [op |-> IF t = T_JOINED THEN "JOINED" ELSE "PARTED",
               room |-> room, result |-> "dispatched"]
    /\ client_rooms' =
          IF room = AbsentRoom THEN client_rooms
          ELSE IF t = T_JOINED THEN client_rooms \cup {RoomKey(room)}
          ELSE client_rooms \ {RoomKey(room)}
    /\ CrFrame

InitRooms ==
    /\ InitConnDone
    /\ InitBackendState("fresh")
    /\ link = 1
    /\ linkUp = TRUE
    /\ client_rooms = {}
    /\ now = TickStep
    /\ InitResState("empty")
    /\ InitThreads
    /\ InitAux

NextRooms ==
    \/ \E room \in RoomsGiven \cup {""}, fits \in BOOLEAN : CrJoin(room, fits)
    \/ \E room \in RoomsGiven \cup {""}, fits \in BOOLEAN : CrPart(room, fits)
    \/ \E t \in {T_JOINED, T_PARTED}, room \in RoomsGiven \cup {AbsentRoom} :
          CrPacket(t, room)
    \/ CloseClear
    \/ CloseCancel
    \/ CloseTeardown
    \/ CloseReturn
    \/ LinkDown
    \/ LinkClosedClear
    \/ LinkClosedOnClose

SpecRooms == InitRooms /\ [][NextRooms]_vars

(***************************************************************************)
(* C36: the client's local rooms set changes only as follows: an inbound   *)
(* JOINED adds the lowercased room, an inbound PARTED removes it,          *)
(* part(room) removes it when the PART was sent successfully regardless of *)
(* hub confirmation and leaves it unchanged when the send fails,           *)
(* join(room) never adds it, and close or link-closed empties it.  The     *)
(* room is taken in its normalized form, stripped and lowercased.          *)
(***************************************************************************)
ClosesNow ==
    \/ close_pc = "idle" /\ close_pc' = "cancel"
    \/ lc_pc = "pending" /\ lc_pc' = "on_close"

C36_Step ==
    LET r == RoomKey(rop'.room) IN
    /\ ClosesNow => client_rooms' = {}
    /\ (rop' # rop /\ rop'.op = "join") => client_rooms' = client_rooms
    /\ (rop' # rop /\ rop'.op = "part") =>
          IF rop'.result = "ok"
          THEN client_rooms' = client_rooms \ {r}
          ELSE client_rooms' = client_rooms
    /\ (rop' # rop /\ rop'.op = "JOINED" /\ rop'.room # AbsentRoom) =>
          client_rooms' = client_rooms \cup {r}
    /\ (rop' # rop /\ rop'.op = "PARTED" /\ rop'.room # AbsentRoom) =>
          client_rooms' = client_rooms \ {r}
    /\ client_rooms' # client_rooms =>
          \/ ClosesNow
          \/ rop'.op = "part" /\ rop'.result = "ok"
          \/ rop'.op \in {"JOINED", "PARTED"} /\ rop'.room # AbsentRoom

C36_RoomsFrame == [][C36_Step]_vars

\* a part() whose send failed has left a room joined under another spelling
\* in the set
C36_Witness ==
    /\ rop.op = "part"
    /\ rop.room = " General "
    /\ rop.result = "MessageTooLargeError"
    /\ client_rooms = {"general", "other"}

(***************************************************************************)
(* C37: when the disconnect command's Client.close step has returned, the  *)
(* ping loop has been cancelled and has terminated: no ping-loop task is   *)
(* running from then until the next WELCOME starts a new loop.             *)
(***************************************************************************)
C37_Step == DisconnectCmd => ~ping_task'

C37_PingLoopStopped == [][C37_Step]_vars

(***************************************************************************)
(* SpecCallbacks: the call sites of the user callbacks (client.py 214-218, *)
(* 726-735, 761-765, 821-890), with callbacks that may raise.  A callback  *)
(* raises an Exception or returns; what the call site lets through reaches *)
(* the transport worker that delivered the packet.                         *)
(***************************************************************************)
Callbacks ==
    {"on_pong", "on_welcome", "on_joined", "on_parted", "on_message",
     "on_notice", "on_error", "on_close", "on_resource_warning"}

\* the callback that _on_packet calls for a packet of type t
CallbackOf(t) ==
    IF t = T_PONG THEN "on_pong"
    ELSE IF t = T_WELCOME THEN "on_welcome"
    ELSE IF t = T_JOINED THEN "on_joined"
    ELSE IF t = T_PARTED THEN "on_parted"
    ELSE IF t = T_MSG THEN "on_message"
    ELSE IF t = T_NOTICE THEN "on_notice"
    ELSE "on_error"

\* a faulty variant, for comparison: on_message is called bare
CallSiteBareMessage(cb) ==
    IF cb = "on_message" THEN "bare"
    ELSE IF cb \in {"on_pong", "on_resource_warning"} THEN "suppress"
    ELSE "except"

\* what stands around the call: contextlib.suppress(Exception) at lines 734
\* and 763, try ... except Exception at 215, 825, 840, 855, 865, 876, 886
CallSite(cb) ==
    IF cb \in {"on_pong", "on_resource_warning"} THEN "suppress"
    ELSE "except"

\* the exception leaves the call site
Escapes(cb, raises) == raises /\ CallSite(cb) \notin {"suppress", "except"}

CbFrame ==
    UNCHANGED <<conn_pc, link_made, est_pc, hello_pc, hello_n, hub_hello,
                wel_inflight, wire, ncmd, bclient, beVars, rateVars, callVars,
                timeVars, concluded, hubVars, raceVars, lockVars, sessVars,
                helloVars, expVars, rop, anx, resource_expectations,
                active_resources, resource_to_expectation, wpc, wloc, close_pc,
                close_loc, lc_pc, transfers, now, nev, matched, adv_results,
                on_close_calls>>

Called(cb, room, raises) ==
    [cb |-> cb, room |-> room, raised |-> raises,
     before |-> cbk.before \/ cbk.raised, escaped |-> Escapes(cb, raises)]

\* client.py 761-765 and 821-890: a valid packet of type t on a worker whose
\* earlier callbacks have all returned to it; the state is updated before
\* the callback is called; JOINED and PARTED without a room call nothing
CbPacket(t, room, raises) ==
    /\ linkUp
    /\ ~cbk.escaped
    /\ welcomed' = (welcomed \/ t = T_WELCOME)
    /\ client_rooms' =
          IF room = AbsentRoom THEN client_rooms
          ELSE IF t = T_JOINED THEN client_rooms \cup {RoomKey(room)}
          ELSE IF t = T_PARTED THEN client_rooms \ {RoomKey(room)}
          ELSE client_rooms
    /\ cbk' = IF t \in {T_JOINED, T_PARTED} /\ room = AbsentRoom
              THEN [NoCbk EXCEPT !.before = cbk.before \/ cbk.raised]
              ELSE Called(CallbackOf(t), room, raises)
    /\ UNCHANGED <<link, linkUp>>
    /\ CbFrame

\* client.py 720-736: _send finds the payload too large, calls
\* on_resource_warning and raises MessageTooLargeError to its caller
CbTooLarge(raises) ==
    /\ link # NoLink
    /\ ~cbk.escaped
    /\ cbk' = Called("on_resource_warning", AbsentRoom, raises)
    /\ UNCHANGED <<link, linkUp, welcomed, client_rooms>>
    /\ CbFrame

\* client.py 187-218: the link-closed callback clears the state under the
\* lock and calls on_close
CbLinkClosed(raises) ==
    /\ linkUp
    /\ ~cbk.escaped
    /\ linkUp' = FALSE
    /\ link' = NoLink
    /\ client_rooms' = {}
    /\ cbk' = Called("on_close", AbsentRoom, raises)
    /\ UNCHANGED welcomed
    /\ CbFrame

InitCallbacks ==
    /\ bclient = TRUE
    /\ conn_pc = "wait_welcome"
    /\ welcomed = FALSE
    /\ link_made = TRUE
    /\ est_pc = "done"
    /\ hello_pc = "run"
    /\ hello_n = 1
    /\ hub_hello = 1
    /\ wel_inflight = 0
    /\ wire = {}
    /\ ncmd = 0
    /\ InitBackendState("fresh")
    /\ link = 1
    /\ linkUp = TRUE
    /\ client_rooms = {}
    /\ now = TickStep
    /\ InitResState("empty")
    /\ InitThreads
    /\ InitAux

NextCallbacks ==
    \/ \E t \in {T_PONG, T_WELCOME, T_JOINED, T_PARTED, T_MSG, T_NOTICE,
                 T_ERROR},
          room \in {"general", "other", AbsentRoom}, raises \in BOOLEAN :
          CbPacket(t, room, raises)
    \/ \E raises \in BOOLEAN : CbTooLarge(raises)
    \/ \E raises \in BOOLEAN : CbLinkClosed(raises)

SpecCallbacks == InitCallbacks /\ [][NextCallbacks]_vars

(***************************************************************************)
(* C38: an exception raised by any user callback (on_message, on_notice,   *)
(* on_error, on_welcome, on_joined, on_parted, on_pong, on_close,          *)
(* on_resource_warning) is swallowed at the call site: it never reaches    *)
(* the transport worker, the state updates of that packet (welcomed set,   *)
(* room added or removed) are kept, and later packets are still            *)
(* dispatched.                                                             *)
(***************************************************************************)
C38_Step ==
    cbk' # cbk =>
       /\ ~cbk'.escaped
       /\ cbk'.cb = "on_welcome" => welcomed'
       /\ welcomed => welcomed'
       /\ cbk'.cb = "on_joined" => RoomKey(cbk'.room) \in client_rooms'
       /\ cbk'.cb = "on_parted" => RoomKey(cbk'.room) \notin client_rooms'
       /\ cbk'.cb \notin {"on_parted", "on_close"} =>
             client_rooms \subseteq client_rooms'

C38_CallbackSwallowed == [](~cbk.escaped) /\ [][C38_Step]_vars

\* after callbacks that raised, among them the on_joined of "general", a
\* later MSG has been dispatched, with the updates of the earlier packets
\* in place
C38_Witness ==
    /\ cbk.cb = "on_message"
    /\ cbk.before
    /\ ~cbk.raised
    /\ welcomed
    /\ client_rooms = {"general"}

(***************************************************************************)
(* SpecNick: the backend's handlers fed with events of every type that     *)
(* carry a nick.  The client hands the envelope to the callback as it came *)
(* (client.py 833-890), so the nick field of a NOTICE, JOINED or PARTED    *)
(* reaches the handler as that of a MSG does.                              *)
(***************************************************************************)
NickEvents ==
    {[NoEvent EXCEPT !.h = "message", !.room = r, !.nick = k] :
        r \in MsgRooms, k \in Nicks}
    \cup {[NoEvent EXCEPT !.h = "notice", !.room = r, !.nick = k] :
        r \in NoticeRooms, k \in Nicks}
    \cup {[NoEvent EXCEPT !.h = hh, !.room = "general", !.single = TRUE,
                           !.users = UserList(TRUE), !.nick = k] :
        hh \in {"joined", "parted"}, k \in Nicks}

NextNick ==
    \/ \E e \in NickEvents : Post(e)
    \/ \E i \in 1..Len(tasks) : OnMessage(i)
    \/ \E i \in 1..Len(tasks) : OnNotice(i)
    \/ \E i \in 1..Len(tasks) : OnJoined(i)
    \/ \E i \in 1..Len(tasks) : OnParted(i)
    \/ \E i \in 1..Len(tasks) : Resume(i)

SpecNick == InitBackend /\ [][NextNick]_vars

(***************************************************************************)
(* C39: whenever an inbound envelope of any type that reaches the Backend  *)
(* (MSG, NOTICE, JOINED, PARTED, ERROR) carries a nick whose sanitized form *)
(* is non-empty, after the event is handled the nickname table maps the    *)
(* sender's digest to that nick, and the entry stays until an event        *)
(* replaces it.                                                            *)
(***************************************************************************)
Handled(i) == tasks[i].pc = "posted" /\ tasks'[i].pc # "posted"

C39_Step ==
    /\ \A i \in 1..Len(tasks) :
          (Handled(i) /\ tasks[i].e.nick # "") =>
             nicknames' = tasks[i].e.nick
    /\ nicknames' # nicknames =>
          \E i \in 1..Len(tasks) :
             Handled(i) /\ tasks[i].e.nick = nicknames'

C39_NickRecorded == [][C39_Step]_vars

(***************************************************************************)
(* SpecAnnounce: HubAnnounceHandler.received_announce (backend.py 46-174)  *)
(* from the app_data on: the size check, the decoding of the hub name, the *)
(* upsert under the Backend lock, the save of the cache file and the       *)
(* hub_discovered broadcast, step by step on a transport thread.           *)
(***************************************************************************)
MAX_ANNOUNCE_DATA_SIZE == 10240

\* what cbor2.loads and the utf-8 decoding make of app_data:
\*   "empty"    no app_data;
\*   "dict"     a CBOR map, raw its hub name ("" is none);
\*   "dict_bad" a CBOR map with a key of another type than str, int, bytes,
\*              or with an oversized nested value;
\*   "list"     a CBOR array, raw its last element if that is a string;
\*   "str"      a CBOR text string;
\*   "other"    another CBOR value;
\*   "utf8"     not CBOR, but UTF-8 text;
\*   "binary"   neither.
\* big: a map or array of more than 20 entries, a string of more than 200
\* characters
CborNames == {"Demo Hub", " Demo Hub ", "Demo\tHub", " ", ""}

TextNames == {"Hub One", "Hub\tOne"}

PaddedLens == {MAX_ANNOUNCE_DATA_SIZE, MAX_ANNOUNCE_DATA_SIZE + 1}

AppData ==
    {[len |-> 0, form |-> "empty", big |-> FALSE, raw |-> ""]}
    \cup {[len |-> Len(r) + 16, form |-> f, big |-> FALSE, raw |-> r] :
             f \in {"dict", "list", "str"}, r \in CborNames}
    \cup {[len |-> 16, form |-> f, big |-> FALSE, raw |-> ""] :
             f \in {"dict_bad", "other", "binary"}}
    \cup {[len |-> Len(r), form |-> "utf8", big |-> FALSE, raw |-> r] :
             r \in TextNames}
    \cup {[len |-> l, form |-> "dict", big |-> b, raw |-> "Demo Hub"] :
             l \in PaddedLens, b \in BOOLEAN}
    \cup {[len |-> l, form |-> "str", big |-> TRUE, raw |-> "Demo Hub"] :
             l \in PaddedLens}

\* a faulty variant, for comparison: no limit on app_data
OversizedNever(app) == FALSE

\* backend.py 68
Oversized(app) == app.len > MAX_ANNOUNCE_DATA_SIZE

\* backend.py 65-134: the announce is given up before the catalog is touched
Rejected(app) ==
    /\ app.len # 0
    /\ \/ Oversized(app)
       \/ app.form \in {"dict", "list", "str"} /\ app.big
       \/ app.form \in {"dict_bad", "binary"}

\* utils.py 122-155 on the names above: strip, drop the control characters;
\* "" stands for None
sanitize_display_name(name) ==
    IF name \in {" ", ""} THEN ""
    ELSE IF name = " Demo Hub " THEN "Demo Hub"
    ELSE IF name = "Demo\tHub" THEN "DemoHub"
    ELSE IF name = "Hub\tOne" THEN "HubOne"
    ELSE name

\* f"Hub {hash_hex[:8]}"
DefaultHubName(h) == "Hub " \o h

\* backend.py 62-145
SanitizedHubName(app, h) ==
    LET found == IF app.form \in {"dict", "list", "str", "utf8"} THEN app.raw
                 ELSE ""
        given == IF found = "" THEN DefaultHubName(h) ELSE found
        sanitized_hub_name == sanitize_display_name(given)
    IN IF sanitized_hub_name = "" THEN DefaultHubName(h)
       ELSE sanitized_hub_name

AnxFrame ==
    UNCHANGED <<resVars, connVars, rooms, nicknames, hub_name, ping_task,
                tasks, members, room_operation_times, fwd, reply, wall,
                callVars, timeVars, concluded, lockVars, sessVars, helloVars,
                expVars, rop, cbk>>

\* backend.py 59-147: the transport calls received_announce for hub h with
\* app_data app
AnnReceived(h, app) ==
    /\ ann.pc = "idle"
    /\ ann.n < MaxAnnounces
    /\ IF Rejected(app)
       THEN /\ ann' = [ann EXCEPT !.n = @ + 1]
            /\ anx' = [anx EXCEPT !.h = h, !.app = app, !.out = "dropped"]
       ELSE /\ ann' = [ann EXCEPT !.pc = "lock", !.h = h, !.n = @ + 1]
            /\ anx' = [anx EXCEPT !.h = h, !.app = app, !.out = "accepted"]
    /\ UNCHANGED <<discovered_hubs, hub_cache, hub_saves, hub_reply, gc,
                   b_lock, hub_writes, ui>>
    /\ AnxFrame

\* backend.py 151-156: the entry with its name and the time of the upsert
AnnUpsertNamed ==
    /\ ann.pc = "upsert"
    /\ WriteCatalog("announce", Upsert(discovered_hubs, ann.h, wall))
    /\ anx' = [anx EXCEPT
                  !.names = [x \in DOMAIN @ \cup {ann.h} |->
                                IF x = ann.h
                                THEN SanitizedHubName(anx.app, ann.h)
                                ELSE @[x]],
                  !.at = wall]
    /\ ann' = [ann EXCEPT !.pc = "unlock"]
    /\ UNCHANGED <<hub_cache, hub_saves, hub_reply, gc, b_lock, ui>>
    /\ AnxFrame

NextAnnounce ==
    \/ \E h \in HubHashes, app \in AppData : AnnReceived(h, app)
    \/ AnnLock
    \/ AnnUpsertNamed
    \/ AnnUnlock
    \/ AnnSaveBegin
    \/ AnnDump
    \/ AnnBroadcast
    \/ HubTick

SpecAnnounce == InitHubs /\ [][NextAnnounce]_vars

(***************************************************************************)
(* C40: an announce whose app_data is longer than 10240 bytes is dropped   *)
(* with no effect: the discovery catalog and the cache file are unchanged  *)
(* and no hub_discovered event is posted; every announce that is not       *)
(* rejected upserts catalog[hash] with last_seen = now and a non-empty     *)
(* sanitized name before the cache is saved and before hub_discovered is   *)
(* posted.                                                                 *)
(***************************************************************************)
\* app_data that passes every check of received_announce
WellFormed(app) ==
    \/ app.form \in {"empty", "other", "utf8"}
    \/ app.form \in {"dict", "list", "str"} /\ ~app.big

Upserted ==
    /\ ann.h \in DOMAIN discovered_hubs
    /\ discovered_hubs[ann.h] = anx.at
    /\ ann.h \in DOMAIN anx.names
    /\ anx.names[ann.h] # ""
    /\ anx.names[ann.h] = sanitize_display_name(anx.names[ann.h])

C40_State ==
    /\ anx.out = "dropped" => ann.pc = "idle"
    /\ ann.pc \in {"unlock", "save", "dump", "broadcast"} => Upserted

C40_Step ==
    /\ (ann'.n # ann.n /\ anx'.app.len > MAX_ANNOUNCE_DATA_SIZE) =>
          /\ anx'.out = "dropped"
          /\ UNCHANGED <<discovered_hubs, hub_cache, hub_saves, ui>>
          /\ anx'.names = anx.names
    /\ (ann'.n # ann.n /\ anx'.app.len <= MAX_ANNOUNCE_DATA_SIZE
          /\ WellFormed(anx'.app)) => anx'.out = "accepted"
    /\ (discovered_hubs' # discovered_hubs \/ anx'.names # anx.names) =>
          /\ anx.out = "accepted"
          /\ discovered_hubs'[ann.h] = wall
          /\ anx'.at = wall
    /\ (hub_cache' # hub_cache \/ ui' # ui) =>
          /\ anx.out = "accepted"
          /\ ann.pc \in {"save", "dump", "broadcast"}
          /\ Upserted

C40_AnnounceUpsert == [](C40_State) /\ [][C40_Step]_vars

\* an announce of exactly 10240 bytes has been upserted, saved and posted
\* after an announce of 10241 bytes was dropped
C40_Witness ==
    /\ ann.pc = "idle"
    /\ ann.n = 2
    /\ anx.out = "accepted"
    /\ anx.app.len = MAX_ANNOUNCE_DATA_SIZE
    /\ hub_saves = 1
    /\ hub_cache = discovered_hubs
    /\ anx.h \in DOMAIN hub_cache
    /\ Len(ui) = 1
    /\ ui[1].type = "hub_discovered"

====
